---- MODULE Spec2Model ----
(***************************************************************************)
(* Model of junncao/audioProcess: the caption/transcription pipeline       *)
(* (audioprocess/main.py), the proxy scopes it runs under                  *)
(* (audioprocess/utils/proxy_manager.py), and the Telegram bot's worker    *)
(* and LogCollector threads (audioprocess/scripts/telegram_bot.py).        *)
(*                                                                         *)
(* The module holds one state machine per component; every one has its own *)
(* specification (Spec, SpecScope, SpecBotProxy, SpecCollector,            *)
(* SpecCaptions, SpecSummarize) and leaves the other components' variables *)
(* idle.                                                                   *)
(***************************************************************************)
EXTENDS Integers, Sequences, FiniteSets, TLC

VARIABLES
    env,            \* os.environ, restricted to the proxy-related names
    \* --- no_proxy_context used on its own (SpecScope)
    scope_pc,       \* "idle" | "inside" | "raising" | "leaving" | "exited"
    scope_saved,    \* original_proxies of no_proxy_context
    entry_env,      \* history: env when the with-block was entered
    scope_outcome,  \* what the caller of the with-block sees
    \* --- process_youtube_video (Spec)
    pc,             \* position in process_youtube_video / summarize
    force_audio,    \* argument force_audio
    skip_summary,   \* argument skip_summary
    result,         \* the result dict
    acquired,       \* subtitle_result['text'] / transcription_result['full_text']
    summary,        \* value returned by summarize_text
    sum_saved,      \* original_proxies of the summarizer's no_proxy_context
    calls,          \* history: the collaborator stages invoked, in order
    stage_fail,     \* history: the stage whose failure ended the acquisition
    asr_status,     \* history: task_status of the ASR job the run waited for
    api_outcome,    \* history: how the completion request of _call_api ended
    \* --- bot worker threads and the process-wide proxy state (SpecBotProxy)
    wpc,            \* [Runs -> position in process_youtube_in_thread]
    wsaved,         \* [Runs -> stack of original_proxies held by the run]
    wstatus,        \* [Runs -> last text written to the run's status message]
    wres,           \* [Runs -> "none" | "ok" | "fail"], result['success']
    handlers,       \* number of QueueHandlers attached to the root logger
    cancelled,      \* history: the user has sent /cancel during a run
    start_env,      \* history: env when the bot process started
    \* --- one summary run and its LogCollector (SpecCollector)
    log_queue,      \* the module-level Queue of formatted log records
    running,        \* LogCollector.running
    logs,           \* LogCollector.logs
    since_update,   \* time.time() - last_update_time, saturated at HEARTBEAT
    last_message_text,  \* LogCollector.last_message_text
    cpc,            \* position in collect_logs
    new_logs_added, \* local of collect_logs
    status_msg,     \* the text the status message shows
    tpc,            \* position of the run's worker thread
    tres,           \* result['success'] of the run: "none" | "ok" | "fail"
    emitted,        \* number of progress records the pipeline has logged
    edit_failures,  \* number of edit calls of the collector that failed
    last_edit,      \* history: the latest edit call on the status message
    last_ok_text,   \* history: text of the collector's last edit that succeeded
    final_written,  \* history: send_final_result wrote the final text
    since_edit,     \* history: time since the collector's latest edit call,
                    \* saturated just above MIN_INTERVAL
    put_order,      \* history: the records put on log_queue, in put order
    other_logs,     \* self.logs of the LogCollector of another run in progress
    \* --- SubtitleExtractor.extract on one video's info (SpecCaptions)
    cap_info,       \* what ydl.extract_info gave: the caption track dicts
    cap_pc,         \* position in extract
    cap_sel,        \* subtitles_info, the value of _find_best_subtitle
    cap_out,        \* the value extract returns
    cap_fetches,    \* history: number of caption payloads requested
    \* --- the command line entry point main() (SpecCli)
    cli_args,       \* args of parser.parse_args(), and what the text file holds
    cli_pc,         \* position in main
    cli_mode,       \* history: the branch of main that was taken
    cli_exit,       \* the value main returns, or "none"
    \* --- the bot's conversation with each user (SpecConversation)
    allowed_users,  \* TELEGRAM_ALLOWED_USERS
    conv_state,     \* per user: the state the ConversationHandler keeps
    started,        \* history: per user, the kinds of work started for them
    \* --- result files written by runs at the same time (SpecArtifacts)
    art_clock,      \* datetime.now(), in seconds
    art_pc,         \* per run: position in the run
    art_files,      \* history: every write, as the path and the writing run
    \* --- the integration script (SpecIntegration)
    it_args,        \* args of parser.parse_args()
    it_pc,          \* position in main_function
    original_proxies, \* the dict of that name
    it_entry_env,   \* history: os.environ when main_function was entered
    \* --- the full flow of the legacy main() (SpecLegacy)
    leg_args,       \* args of parser.parse_args()
    leg_pc,         \* position in main
    leg_result,     \* what transcribe_audio returned
    leg_deleted,    \* delete_file_from_oss was called and returned True
    leg_calls,      \* history: the calls made, in order
    leg_exit        \* the value main has returned, as a set: empty before the return

scopeVars == <<scope_pc, scope_saved, entry_env, scope_outcome>>
pipeVars  == <<pc, force_audio, skip_summary, result, acquired, summary,
               sum_saved, calls, stage_fail, asr_status, api_outcome>>
botVars   == <<wpc, wsaved, wstatus, wres, handlers, cancelled, start_env>>
collVars  == <<log_queue, running, logs, since_update, last_message_text,
               cpc, new_logs_added, status_msg, tpc, tres, emitted,
               edit_failures, last_edit, last_ok_text, final_written,
               since_edit, put_order, other_logs>>
capVars   == <<cap_info, cap_pc, cap_sel, cap_out, cap_fetches>>
cliVars   == <<cli_args, cli_pc, cli_mode, cli_exit>>
convVars  == <<allowed_users, conv_state, started>>
artVars   == <<art_clock, art_pc, art_files>>
itVars    == <<it_args, it_pc, original_proxies, it_entry_env>>
legVars   == <<leg_args, leg_pc, leg_result, leg_deleted, leg_calls, leg_exit>>
restVars  == <<convVars, artVars, itVars, legVars>>
vars == <<env, scopeVars, pipeVars, botVars, collVars, capVars, cliVars, restVars>>

----------------------------------------------------------------------------
(* Python values *)

\* A deleted / never set environment variable.
Absent == "<absent>"

\* A dict d with d[k] = v set.
Put(d, k, v) == [x \in (DOMAIN d) \cup {k} |-> IF x = k THEN v ELSE d[x]]

\* The empty dict.
EmptyDict == [x \in {} |-> Absent]

----------------------------------------------------------------------------
(* The proxy environment *)

\* The six variables that route requests through a proxy.
ROUTE_VARS == {"HTTP_PROXY", "http_proxy", "HTTPS_PROXY", "https_proxy",
               "ALL_PROXY", "all_proxy"}
NO_PROXY_VARS == {"NO_PROXY", "no_proxy"}
\* proxy_vars of disable_all_proxies
DISABLE_ALL_VARS == ROUTE_VARS \cup {"FTP_PROXY", "ftp_proxy"}
\* the list no_proxy_context saves and clears
CONTEXT_VARS == ROUTE_VARS \cup NO_PROXY_VARS
\* every name some proxy function reads or writes
ProxyVars == DISABLE_ALL_VARS \cup NO_PROXY_VARS

ProxyUrl == "http://127.0.0.1:7890"
ValuesOf(n) == IF n \in NO_PROXY_VARS THEN {Absent, "*", "localhost"}
               ELSE {Absent, ProxyUrl}

\* Every environment over the proxy names.
Environments == {e \in [ProxyVars -> {Absent, "*", "localhost", ProxyUrl}] :
                    \A n \in ProxyVars : e[n] \in ValuesOf(n)}

\* {var: os.environ[var] for var in names if var in os.environ}
Snapshot(e, names) == [n \in {m \in names : e[m] /= Absent} |-> e[n]]

\* for var in names: if var in os.environ: del os.environ[var]
Unset(e, names) == [n \in DOMAIN e |-> IF n \in names THEN Absent ELSE e[n]]

\* for var, value in saved.items(): os.environ[var] = value
Reapply(e, saved) == [n \in DOMAIN e |-> IF n \in DOMAIN saved THEN saved[n] ELSE e[n]]

\* os.environ['NO_PROXY'] = '*'; os.environ['no_proxy'] = '*'
SetNoProxy(e) == [n \in DOMAIN e |-> IF n \in NO_PROXY_VARS THEN "*" ELSE e[n]]

\* The no-proxy configuration: no routing variable set, NO_PROXY = no_proxy = '*'.
NoProxyConfig(e) == /\ \A n \in ROUTE_VARS : e[n] = Absent
                    /\ \A n \in NO_PROXY_VARS : e[n] = "*"

\* proxy_manager.disable_all_proxies
disable_all_proxies(e) == SetNoProxy(Unset(e, DISABLE_ALL_VARS))

\* no_proxy_context, up to the yield: the snapshot it keeps and the environment
\* the block runs in.
no_proxy_saved(e) == Snapshot(e, CONTEXT_VARS)
no_proxy_enter(e) == disable_all_proxies(e)

\* no_proxy_context, the finally clause.
no_proxy_exit(e, saved) == Reapply(Unset(e, CONTEXT_VARS), saved)

\* telegram_bot.disable_proxies: the snapshot it returns and the environment it leaves.
bot_saved(e) == Snapshot(e, ROUTE_VARS)
bot_disable_proxies(e) == SetNoProxy(Unset(e, ROUTE_VARS))

\* telegram_bot.restore_proxies
bot_restore_proxies(e, saved) == Reapply(Unset(e, NO_PROXY_VARS), saved)

\* proxy_manager.disable_proxies: the dict it returns (the variables of its
\* list that are set) and the environment it leaves (the routing variables
\* deleted, NO_PROXY and no_proxy '*').
pm_saved(e) == Snapshot(e, CONTEXT_VARS)
pm_disable_proxies(e) == SetNoProxy(Unset(e, ROUTE_VARS))

\* proxy_manager.restore_proxies: nothing is done for an empty dict.
pm_restore_proxies(e, saved) ==
    IF DOMAIN saved = {} THEN e
    ELSE Reapply(Unset(e, NO_PROXY_VARS), saved)

----------------------------------------------------------------------------
(* no_proxy_context around an arbitrary block (SpecScope) *)

ScopeInit ==
    /\ scope_pc = "idle"
    /\ scope_saved = EmptyDict
    /\ entry_env = env
    /\ scope_outcome = "none"

\* The components a SpecScope step leaves alone.
OnlyScope == UNCHANGED <<pipeVars, botVars, collVars, capVars, cliVars, restVars>>

ScopeIdle ==
    /\ scope_pc = "unused"
    /\ scope_saved = EmptyDict
    /\ entry_env = env
    /\ scope_outcome = "none"

\* with no_proxy_context(): the snapshot, disable_all_proxies(), then the yield.
ScopeEnter ==
    /\ scope_pc = "idle"
    /\ entry_env' = env
    /\ scope_saved' = no_proxy_saved(env)
    /\ env' = no_proxy_enter(env)
    /\ scope_pc' = "inside"
    /\ UNCHANGED scope_outcome
    /\ OnlyScope

\* The wrapped block runs to its end.
BlockReturns ==
    /\ scope_pc = "inside"
    /\ scope_pc' = "leaving"
    /\ scope_outcome' = "block_returned"
    /\ UNCHANGED <<env, scope_saved, entry_env>>
    /\ OnlyScope

\* The wrapped block raises.
BlockRaises ==
    /\ scope_pc = "inside"
    /\ scope_pc' = "leaving"
    /\ scope_outcome' = "block_raised"
    /\ UNCHANGED <<env, scope_saved, entry_env>>
    /\ OnlyScope

\* The finally clause; contextlib re-raises the block's exception after it.
ScopeExit ==
    /\ scope_pc = "leaving"
    /\ env' = no_proxy_exit(env, scope_saved)
    /\ scope_pc' = "exited"
    /\ scope_outcome' = IF scope_outcome = "block_raised" THEN "raised" ELSE "returned"
    /\ UNCHANGED <<scope_saved, entry_env>>
    /\ OnlyScope

ScopeNext ==
    \/ ScopeEnter
    \/ BlockReturns
    \/ BlockRaises
    \/ ScopeExit

----------------------------------------------------------------------------
(* Texts: a str is the sequence of its pieces, "" is <<>> *)

\* Python None where a str is expected; no text holds this piece.
None == <<"<None>">>

\* bool(s) of an optional str
Truthy(s) == s /= None /\ s /= <<>>

\* Python None, or an empty dict, where a dict is expected: both are falsy.
NoDict == EmptyDict
TruthyDict(d) == DOMAIN d /= {}

\* The failure marker of the summarizer ("摘要生成失败").
MARKER == "summary generation failed"

\* s.startswith(prefix)
startswith(s, prefix) == Len(s) > 0 /\ s[1] = prefix

\* The number of times x occurs in the sequence s.
Count(s, x) == Cardinality({i \in 1..Len(s) : s[i] = x})

\* Sequences over S of length at most n.
SeqUpTo(S, n) == UNION {[1..k -> S] : k \in 0..n}

----------------------------------------------------------------------------
(* SubtitleExtractor *)

\* Longest caption payload, in lines (or JSON segments), the model fetches.
MaxLines == 2

\* Lines a caption payload is made of.
ArrowLine == "00:00:01.000 --> 00:00:02.000"
Lines == {"WEBVTT", ArrowLine, "12", "", " hello ", "world"}
\* 'utf8' values of the segments of a json3 payload.
Segs == {"hi", "\n"}

\* line.strip()
strip(l) == IF l = " hello " THEN "hello" ELSE IF l = "\n" THEN "" ELSE l
\* line.strip().isdigit()
isdigit(l) == strip(l) = "12"

\* A line _parse_text_subtitle skips: a cue timing, a cue number, a blank line,
\* the WebVTT header.
skipped(l) == l = ArrowLine \/ isdigit(l) \/ strip(l) = "" \/ l = "WEBVTT"

RECURSIVE text_of_lines(_)
text_of_lines(ls) ==
    IF ls = <<>> THEN <<>>
    ELSE IF skipped(Head(ls)) THEN text_of_lines(Tail(ls))
    ELSE <<strip(Head(ls))>> \o text_of_lines(Tail(ls))

\* subtitle_text.strip() of the joined pieces: blank pieces at both ends go.
RECURSIVE lstrip(_)
lstrip(t) == IF t /= <<>> /\ strip(Head(t)) = "" THEN lstrip(Tail(t)) ELSE t
RECURSIVE rstrip(_)
rstrip(t) == IF t /= <<>> /\ strip(t[Len(t)]) = "" THEN rstrip(SubSeq(t, 1, Len(t) - 1))
             ELSE t

\* _parse_text_subtitle: None when nothing is left.
parse_text_subtitle(content) ==
    LET subtitle_text == rstrip(lstrip(text_of_lines(content.items)))
    IN  IF subtitle_text = <<>> THEN None ELSE subtitle_text

\* _parse_json_subtitle: json.loads raises on a payload that is no JSON.
parse_json_subtitle(content) ==
    IF ~content.json THEN None
    ELSE LET subtitle_text == rstrip(lstrip(content.items))
         IN  IF subtitle_text = <<>> THEN None ELSE subtitle_text

\* _parse_subtitle: a JSON payload read as text is one line of text.
parse_subtitle(content, format_type) ==
    IF content.items = <<>> /\ ~content.json THEN None
    ELSE IF format_type = "json3" THEN parse_json_subtitle(content)
    ELSE IF content.json THEN <<"{\"events\": [..]}">>
    ELSE parse_text_subtitle(content)

\* What requests.get(url) gives _download_subtitle: a failure, or the payload.
Payloads ==
    {[ok |-> FALSE, json |-> FALSE, items |-> <<>>]}
    \cup {[ok |-> TRUE, json |-> FALSE, items |-> ls] : ls \in SeqUpTo(Lines, MaxLines)}
    \cup {[ok |-> TRUE, json |-> TRUE, items |-> ss] : ss \in SeqUpTo(Segs, MaxLines)}

\* What _find_best_subtitle returns for the video: None, or the chosen track.
Selections ==
    {NoDict,
     [url |-> "https://caption/vtt", language |-> "zh-Hans", format |-> "vtt"],
     [url |-> "https://caption/json3", language |-> "en", format |-> "json3"]}

\* What the collaborators give one call of extract.
CaptionInputs ==
    [url_ok : BOOLEAN,                              \* url and url.strip()
     info : {"raises", "none", "nocaps", "caps"},   \* ydl.extract_info
     selected : Selections,
     payload : Payloads,
     saved : BOOLEAN]                               \* _save_subtitle wrote the file

\* extract without the test of lines 82-83 (if not subtitle_text: return None).
extract_unchecked(inp) ==
    IF ~inp.url_ok THEN NoDict
    ELSE IF inp.info \in {"raises", "none", "nocaps"} THEN NoDict
    ELSE IF ~TruthyDict(inp.selected) THEN NoDict
    ELSE IF ~inp.payload.ok THEN NoDict
    ELSE [text |-> parse_subtitle(inp.payload, inp.selected.format),
          language |-> inp.selected.language,
          format |-> inp.selected.format,
          subtitle_file |-> IF inp.saved THEN <<"subtitle_file.txt">> ELSE None,
          video_url |-> <<"url">>]

\* SubtitleExtractor.extract
extract(inp) ==
    IF ~inp.url_ok THEN NoDict
    ELSE IF inp.info \in {"raises", "none", "nocaps"} THEN NoDict
    ELSE IF ~TruthyDict(inp.selected) THEN NoDict
    ELSE IF ~inp.payload.ok THEN NoDict
    ELSE LET subtitle_text == parse_subtitle(inp.payload, inp.selected.format)
         IN  IF ~Truthy(subtitle_text) THEN NoDict
             ELSE [text |-> subtitle_text,
                   language |-> inp.selected.language,
                   format |-> inp.selected.format,
                   subtitle_file |-> IF inp.saved THEN <<"subtitle_file.txt">> ELSE None,
                   video_url |-> <<"url">>]

----------------------------------------------------------------------------
(* YouTubeDownloader, OssUploader, AudioTranscriber, TextSummarizer *)

\* What one ydl.extract_info(..., download=True) call comes to.
YdlOutcomes == {"file", "missing_file", "no_info", "raises"}

\* The file a finished ydl call leaves, or None.
ydl_file(outcome, name) == IF outcome = "file" THEN <<name>> ELSE None

\* What the collaborators give one call of download.
DownloadInputs == [url_ok : BOOLEAN, options_ok : BOOLEAN,
                   requested : YdlOutcomes, public : YdlOutcomes]

\* YouTubeDownloader._try_fallback_download: the hard-coded public video.
try_fallback_download(outcome) == ydl_file(outcome, "public_video.webm")

\* YouTubeDownloader.download
download(inp) ==
    IF ~inp.url_ok THEN None
    ELSE IF ~inp.options_ok THEN None
    ELSE IF inp.requested = "raises" THEN try_fallback_download(inp.public)
    ELSE ydl_file(inp.requested, "requested_video.webm")

\* What the object store gives one call of upload.
UploadOutcomes == {"no_local_file", "status_200", "status_other", "raises"}

\* OssUploader.upload: the signed URL, or None.
upload(outcome) == IF outcome = "status_200" THEN <<"https://oss/signed">> ELSE None

\* The 'results' list of an ASR job.
AsrResults ==
    {"missing", "empty", "no_url", "url", "subtask_failed"}

\* The transcript document behind transcription_url.
AsrDocs ==
    {[fetched |-> FALSE, transcripts |-> FALSE, text |-> None],
     [fetched |-> TRUE, transcripts |-> FALSE, text |-> None],
     [fetched |-> TRUE, transcripts |-> TRUE, text |-> None],
     [fetched |-> TRUE, transcripts |-> TRUE, text |-> <<>>],
     [fetched |-> TRUE, transcripts |-> TRUE, text |-> <<"spoken words">>]}

\* What the ASR collaborator gives one call of transcribe.
AsrResponses ==
    [raises : BOOLEAN,                  \* async_call / wait raise
     http_ok : BOOLEAN,                 \* status_code == HTTPStatus.OK
     task_status : {"SUCCEEDED", "FAILED", "RUNNING"},
     results : AsrResults,
     doc : AsrDocs,
     saved : BOOLEAN]                   \* _save_transcription_result wrote the file

\* AudioTranscriber._extract_text_from_transcription
extract_text_from_transcription(doc) ==
    IF ~doc.fetched THEN None
    ELSE IF doc.transcripts THEN doc.text
    ELSE None

\* AudioTranscriber._process_transcription_result; X and Y stand for the job's
\* code and message, SX and SY for a failed subtask's.
process_transcription_result(resp) ==
    IF resp.task_status = "SUCCEEDED" THEN
        IF resp.results \in {"missing", "empty"}
        THEN [error |-> <<"no results field in the transcription result">>]
        ELSE IF resp.results # "url"
        THEN [error |-> <<"no transcription_url in the transcription result">>]
        ELSE LET text == extract_text_from_transcription(resp.doc)
             IN  IF Truthy(text)
                 THEN IF resp.saved
                      THEN [full_text |-> text, source_url |-> <<"https://oss/signed">>,
                            saved_file |-> <<"transcription_file.txt">>]
                      ELSE [full_text |-> text, source_url |-> <<"https://oss/signed">>]
                 ELSE [error |-> <<"cannot extract text from the transcription JSON">>]
    ELSE IF resp.task_status = "FAILED" THEN
        IF resp.results = "subtask_failed"
        THEN [error |-> <<"transcription failed: ", "SX", " - ", "SY">>]
        ELSE [error |-> <<"transcription task failed: ", "X", " - ", "Y">>]
    ELSE [error |-> <<"unknown task status: ", resp.task_status>>]

\* transcribe: the task_status of the job whose output reaches
\* _process_transcription_result, "none" when no output does.
job_status(resp) == IF ~resp.raises /\ resp.http_ok THEN resp.task_status ELSE "none"

\* AudioTranscriber.transcribe
transcribe(resp) ==
    IF resp.raises THEN [error |-> <<"transcription processing error: ", "exception">>]
    ELSE IF resp.http_ok THEN process_transcription_result(resp)
    ELSE [error |-> <<"transcription request failed: status ", "500">>]

\* An exception on its way out of a function.
Raised == [raised |-> TRUE]

\* Where the handling of a response can raise past the checks of the code:
\* the response has no output (None.get), an entry of 'results' is not a dict
\* (entry.get), response.json() raises a ValueError that is neither a
\* RequestException nor a json.JSONDecodeError.
AsrFaults == {"none", "output_none", "entry_not_dict", "json_value_error"}

\* The try block of _process_transcription_result, lines 93-157.
process_transcription_try(resp, fault) ==
    IF fault = "output_none" THEN Raised
    ELSE IF /\ fault = "entry_not_dict"
            /\ resp.task_status \in {"SUCCEEDED", "FAILED"}
            /\ resp.results \notin {"missing", "empty"}
    THEN Raised
    ELSE IF /\ fault = "json_value_error"
            /\ resp.task_status = "SUCCEEDED"
            /\ resp.results = "url"
    THEN Raised
    ELSE process_transcription_result(resp)

\* _process_transcription_result with its except clause, lines 159-163.
process_transcription_call(resp, fault) ==
    LET r == process_transcription_try(resp, fault)
    IN  IF r = Raised
        THEN [error |-> <<"error parsing the transcription result: ", "exception">>]
        ELSE r

\* The try block of transcribe, lines 46-74.
transcribe_try(resp, fault) ==
    IF resp.raises THEN Raised
    ELSE IF resp.http_ok THEN process_transcription_call(resp, fault)
    ELSE [error |-> <<"transcription request failed: status ", "500">>]

\* A transcribe without its except clause.
transcribe_uncaught(resp, fault) == transcribe_try(resp, fault)

\* AudioTranscriber.transcribe with its except clause, lines 76-80.
transcribe_call(resp, fault) ==
    LET r == transcribe_try(resp, fault)
    IN  IF r = Raised
        THEN [error |-> <<"transcription processing error: ", "exception">>]
        ELSE r

\* What the completion API gives one call of _call_api.
ApiOutcomes ==
    {[kind |-> "completion", content |-> <<"a summary">>],
     [kind |-> "completion", content |-> <<>>],
     [kind |-> "completion", content |-> None],
     [kind |-> "completion", content |-> <<MARKER, ": quoted by the model">>],
     [kind |-> "socks_error", content |-> None],
     [kind |-> "api_error", content |-> None]}

\* call_api with the caught exception's text returned as it is.
call_api_unmarked(outcome) ==
    IF outcome.kind = "completion" THEN outcome.content ELSE <<"exception">>

\* TextSummarizer._call_api
call_api(outcome) ==
    IF outcome.kind = "completion" THEN outcome.content
    ELSE IF outcome.kind = "socks_error"
    THEN <<MARKER, ": SOCKS proxy error, install httpx[socks] or use --no-proxy">>
    ELSE <<MARKER, ": API call error: ", "exception">>

\* TextSummarizer.summarize, the guard on its input.
summarize_rejects(text) == ~Truthy(text)
summarize_no_text == <<MARKER, ": no text">>

----------------------------------------------------------------------------
(* process_youtube_video (Spec) *)

\* summary and not summary.startswith("摘要生成失败")
summary_ok(s) == Truthy(s) /\ ~startswith(s, MARKER)

\* summary or "未能生成摘要"
summary_error_of(s) == IF Truthy(s) THEN s ELSE <<"could not generate summary">>

\* main.py 50-54: the caption branch fills the result.
caption_result(res, subtitle_result) ==
    Put(Put(Put(Put(res, "subtitle_extracted", TRUE),
                "text", subtitle_result.text),
            "subtitle_file", subtitle_result.subtitle_file),
        "language", subtitle_result.language)

\* main.py 108-109: the transcription branch fills the result.
transcription_result_fields(res, tr) ==
    Put(Put(res, "text", tr.full_text),
        "transcription_file",
        IF "saved_file" \in DOMAIN tr THEN tr.saved_file ELSE None)

\* summary_result with a failed summary reported as the run's error.
summary_result_failing(res, s, saved_file) ==
    IF Truthy(s) /\ ~startswith(s, MARKER)
    THEN Put(Put(res, "summary", s), "success", TRUE)
    ELSE Put(res, "error", IF Truthy(s) THEN s ELSE <<"could not generate summary">>)

\* main.py 61-76 and 116-131: the summary, or the summary error, then success.
summary_result(res, s, saved_file) ==
    LET r1 == IF summary_ok(s)
              THEN LET r0 == Put(res, "summary", s)
                   IN  IF Truthy(saved_file) THEN Put(r0, "summary_file", saved_file)
                       ELSE r0
              ELSE Put(res, "summary_error", summary_error_of(s))
    IN  Put(r1, "success", TRUE)

\* stage_error with the download message copied to every stage.
stage_error_copied(stage, detail) == <<"audio download failed">>

\* main.py 86, 95, 105: the error of a failed stage.
stage_error(stage, detail) ==
    IF stage = "download" THEN <<"audio download failed">>
    ELSE IF stage = "upload" THEN <<"upload to OSS failed">>
    ELSE <<"audio transcription failed: ">> \o detail


\* after_extract without the return of line 77: the run falls through to the download.
after_extract_fallthrough(subtitle_result, skip) == "download"

\* main.py 49-79: where the run goes after caption extraction.
after_extract(subtitle_result, skip) ==
    IF TruthyDict(subtitle_result)
    THEN IF skip THEN "done" ELSE "summarize"
    ELSE "download"

\* A run that summarizes whatever the caller asked for.
after_text_always(skip) == "summarize"

\* main.py 111-132: where the run goes once it holds the text.
after_text(skip) == IF skip THEN "done" ELSE "summarize"

\* The environments a pipeline run starts in: the routing variables all set or
\* all unset, likewise the FTP pair, and NO_PROXY/no_proxy unset, '*' or a host.
PipelineEnvs ==
    {e \in Environments :
        /\ \A n \in ROUTE_VARS : e[n] = e["HTTP_PROXY"]
        /\ e["NO_PROXY"] = e["no_proxy"]
        /\ e["FTP_PROXY"] = e["ftp_proxy"]}

PipeInit ==
    /\ pc = "start"
    /\ force_audio \in BOOLEAN
    /\ skip_summary \in BOOLEAN
    /\ result = [success |-> FALSE]
    /\ acquired = None
    /\ summary = None
    /\ sum_saved = EmptyDict
    /\ calls = <<>>
    /\ stage_fail = "none"
    /\ asr_status = "none"
    /\ api_outcome = "none"

PipeIdle ==
    /\ pc = "unused"
    /\ force_audio = FALSE
    /\ skip_summary = FALSE
    /\ result = [success |-> FALSE]
    /\ acquired = None
    /\ summary = None
    /\ sum_saved = EmptyDict
    /\ calls = <<>>
    /\ stage_fail = "none"
    /\ asr_status = "none"
    /\ api_outcome = "none"

\* The components a pipeline step leaves alone.
OnlyPipe == UNCHANGED <<scopeVars, botVars, collVars, capVars, cliVars, restVars>>

\* main.py 45-79: extract_youtube_subtitles and the caption branch.
ExtractSubtitles ==
    /\ pc = "start" /\ ~force_audio
    /\ \E inp \in CaptionInputs :
        LET subtitle_result == extract(inp)
            next == after_extract(subtitle_result, skip_summary)
        IN  /\ calls' = Append(calls, "extract")
            /\ pc' = next
            /\ IF TruthyDict(subtitle_result)
               THEN /\ acquired' = subtitle_result.text
                    /\ result' = IF next = "done"
                                 THEN Put(caption_result(result, subtitle_result),
                                          "success", TRUE)
                                 ELSE caption_result(result, subtitle_result)
               ELSE UNCHANGED <<acquired, result>>
    /\ UNCHANGED <<env, force_audio, skip_summary, summary, sum_saved, stage_fail, asr_status, api_outcome>>
    /\ OnlyPipe

\* main.py 83-89: download_audio_from_youtube.
Download ==
    /\ pc = "download" \/ (pc = "start" /\ force_audio)
    /\ \E inp \in DownloadInputs :
        LET audio_file == download(inp)
        IN  /\ calls' = Append(calls, "download")
            /\ IF ~Truthy(audio_file)
               THEN /\ result' = Put(result, "error", stage_error("download", <<>>))
                    /\ stage_fail' = "download"
                    /\ pc' = "done"
               ELSE /\ result' = Put(result, "audio_file", audio_file)
                    /\ pc' = "upload"
                    /\ UNCHANGED stage_fail
    /\ UNCHANGED <<env, force_audio, skip_summary, acquired, summary, sum_saved, asr_status, api_outcome>>
    /\ OnlyPipe

\* main.py 92-98: upload_file_to_oss.
Upload ==
    /\ pc = "upload"
    /\ \E outcome \in UploadOutcomes :
        LET oss_url == upload(outcome)
        IN  /\ calls' = Append(calls, "upload")
            /\ IF ~Truthy(oss_url)
               THEN /\ result' = Put(result, "error", stage_error("upload", <<>>))
                    /\ stage_fail' = "upload"
                    /\ pc' = "done"
               ELSE /\ result' = Put(result, "oss_url", oss_url)
                    /\ pc' = "transcribe"
                    /\ UNCHANGED stage_fail
    /\ UNCHANGED <<env, force_audio, skip_summary, acquired, summary, sum_saved, asr_status, api_outcome>>
    /\ OnlyPipe

\* main.py 101-109: transcribe_audio and the transcription branch.
Transcribe ==
    /\ pc = "transcribe"
    /\ \E resp \in AsrResponses :
        LET transcription_result == transcribe(resp)
            next == after_text(skip_summary)
        IN  /\ calls' = Append(calls, "transcribe")
            /\ asr_status' = job_status(resp)
            /\ IF "error" \in DOMAIN transcription_result
               THEN /\ result' = Put(result, "error",
                                     stage_error("transcribe", transcription_result.error))
                    /\ stage_fail' = "transcribe"
                    /\ pc' = "done"
                    /\ UNCHANGED acquired
               ELSE /\ acquired' = transcription_result.full_text
                    /\ result' =
                         IF next = "done"
                         THEN Put(transcription_result_fields(result, transcription_result),
                                  "success", TRUE)
                         ELSE transcription_result_fields(result, transcription_result)
                    /\ pc' = next
                    /\ UNCHANGED stage_fail
    /\ UNCHANGED <<env, force_audio, skip_summary, summary, sum_saved, api_outcome>>
    /\ OnlyPipe

\* transcription.py 63: Transcription.wait(task=task_id) is called without a
\* timeout; for a job that never reaches a final status it does not return,
\* and the run has no further step.
TranscriptionWait ==
    /\ pc = "transcribe"
    /\ calls' = Append(calls, "transcribe")
    /\ asr_status' = "RUNNING"
    /\ pc' = "waiting"
    /\ UNCHANGED <<env, force_audio, skip_summary, result, acquired, summary,
                   sum_saved, stage_fail, api_outcome>>
    /\ OnlyPipe

\* AudioTranscriber.transcribe called on its own: what the call comes to is
\* kept in result, "raised" when an exception leaves it.
TranscribeAlone ==
    /\ pc = "transcribe_alone"
    /\ \E resp \in AsrResponses, fault \in AsrFaults :
        LET r == transcribe_call(resp, fault)
        IN  /\ result' = r
            /\ asr_status' = job_status(resp)
            /\ pc' = IF r = Raised THEN "raised" ELSE "returned"
    /\ calls' = Append(calls, "transcribe")
    /\ UNCHANGED <<env, force_audio, skip_summary, acquired, summary, sum_saved,
                   stage_fail, api_outcome>>
    /\ OnlyPipe

TranscribeInit ==
    /\ pc = "transcribe_alone"
    /\ acquired = None
    /\ force_audio = FALSE
    /\ skip_summary = FALSE
    /\ result = [success |-> FALSE]
    /\ summary = None
    /\ sum_saved = EmptyDict
    /\ calls = <<>>
    /\ stage_fail = "none"
    /\ asr_status = "none"
    /\ api_outcome = "none"

\* summarization.py 51-65: summarize_text up to the API call; the no-proxy
\* scope is entered unless the text is empty.
SummarizeBegin ==
    /\ pc = "summarize"
    /\ calls' = Append(calls, "summarize")
    /\ IF summarize_rejects(acquired)
       THEN /\ summary' = summarize_no_text
            /\ pc' = "record"
            /\ UNCHANGED <<env, sum_saved>>
       ELSE /\ sum_saved' = no_proxy_saved(env)
            /\ env' = no_proxy_enter(env)
            /\ pc' = "api"
            /\ UNCHANGED summary
    /\ UNCHANGED <<force_audio, skip_summary, result, acquired, stage_fail, asr_status, api_outcome>>
    /\ OnlyPipe

\* summarization.py 66, 75-125: _call_api inside the scope.
CallApi ==
    /\ pc = "api"
    /\ \E outcome \in ApiOutcomes : /\ summary' = call_api(outcome)
                                    /\ api_outcome' = outcome.kind
    /\ calls' = Append(calls, "completion")
    /\ pc' = "leave"
    /\ UNCHANGED <<env, force_audio, skip_summary, result, acquired, sum_saved, stage_fail, asr_status>>
    /\ OnlyPipe

\* proxy_manager.py 171-180: the scope's finally clause, on the way out of summarize.
SummarizeEnd ==
    /\ pc = "leave"
    /\ env' = no_proxy_exit(env, sum_saved)
    /\ pc' = "record"
    /\ UNCHANGED <<force_audio, skip_summary, result, acquired, summary, sum_saved,
                   calls, stage_fail, asr_status, api_outcome>>
    /\ OnlyPipe

\* main.py 61-77 and 116-132: the summary or the summary error goes into the
\* result; save_summary_result runs for a good summary only.
RecordSummary ==
    /\ pc = "record"
    /\ \E saved_file \in {None, <<"summary_file.txt">>} :
        result' = summary_result(result, summary, saved_file)
    /\ calls' = IF summary_ok(summary) THEN Append(calls, "save") ELSE calls
    /\ pc' = "done"
    /\ UNCHANGED <<env, force_audio, skip_summary, acquired, summary, sum_saved, stage_fail, asr_status, api_outcome>>
    /\ OnlyPipe

\* The texts summarize is called with.
SummarizeTexts == {None, <<>>, <<"spoken words">>}

\* summarize_text called on its own, for every text and starting environment.
SumInit ==
    /\ pc = "summarize"
    /\ acquired \in SummarizeTexts
    /\ force_audio = FALSE
    /\ skip_summary = FALSE
    /\ result = [success |-> FALSE]
    /\ summary = None
    /\ sum_saved = EmptyDict
    /\ calls = <<>>
    /\ stage_fail = "none"
    /\ asr_status = "none"
    /\ api_outcome = "none"

\* TextSummarizer.summarize: the guard and the scope's entry, _call_api, the
\* scope's exit; the value is returned at pc = "record".
SumNext ==
    \/ SummarizeBegin
    \/ CallApi
    \/ SummarizeEnd

PipeNext ==
    \/ ExtractSubtitles
    \/ Download
    \/ Upload
    \/ Transcribe
    \/ TranscriptionWait
    \/ SummarizeBegin
    \/ CallApi
    \/ SummarizeEnd
    \/ RecordSummary

----------------------------------------------------------------------------
(* The bot's worker threads and the process-wide proxy state (SpecBotProxy) *)

\* Summary requests the bot serves at the same time.
NumRuns == 2
Runs == 1..NumRuns

\* The environments the bot process starts in.
BotEnvs == {e \in PipelineEnvs : e["FTP_PROXY"] = Absent}

\* What process_youtube_video comes to before any summarization: a text, a
\* failed stage (success=False), or an exception that leaves the function
\* (OssUploader.__init__ re-raises what _init_bucket caught).
AcquireOutcomes == {"text", "failed", "raises"}

\* setup_queue_logger: one more QueueHandler on the root logger.
setup_queue_logger(n) == n + 1

\* The times one log record is put on log_queue: once by every QueueHandler
\* of the root logger (Logger.callHandlers calls emit of each).
puts_per_record(n) == n

\* A handler that lets the exception leave process_youtube_in_thread.
after_restore_uncaught(res) == IF res = "raised" THEN "escaped" ELSE "done"

\* process_youtube_in_thread, after the finally clause: an exception raised in
\* the inner try goes on to the except clause of the outer try.
after_restore(res) == IF res = "raised" THEN "except" ELSE "done"

\* The stack s with x pushed, its top, and s without its top.
Push(s, x) == Append(s, x)
Top(s) == s[Len(s)]
Pop(s) == SubSeq(s, 1, Len(s) - 1)

BotInit ==
    /\ wpc = [r \in Runs |-> "idle"]
    /\ wsaved = [r \in Runs |-> <<>>]
    /\ wstatus = [r \in Runs |-> "processing started"]
    /\ wres = [r \in Runs |-> "none"]
    /\ handlers = 0
    /\ cancelled = FALSE
    /\ start_env = env

BotIdle ==
    /\ wpc = [r \in Runs |-> "unused"]
    /\ wsaved = [r \in Runs |-> <<>>]
    /\ wstatus = [r \in Runs |-> "processing started"]
    /\ wres = [r \in Runs |-> "none"]
    /\ handlers = 0
    /\ cancelled = FALSE
    /\ start_env = [n \in ProxyVars |-> Absent]

\* The components a step of a worker thread leaves alone.
OnlyBot == UNCHANGED <<scopeVars, pipeVars, collVars, capVars, cliVars, restVars>>

\* handle_summary_request: the worker thread of run r is started.
StartRun(r) ==
    /\ wpc[r] = "idle"
    /\ wpc' = [wpc EXCEPT ![r] = "start"]
    /\ UNCHANGED <<env, wsaved, wstatus, wres>>
    /\ UNCHANGED <<handlers, cancelled, start_env>>
    /\ OnlyBot

\* process_youtube_in_thread, lines 572-575: setup_queue_logger() adds a
\* QueueHandler to the root logger; original_proxies = disable_proxies().
WorkerDisable(r) ==
    /\ wpc[r] = "start"
    /\ handlers' = setup_queue_logger(handlers)
    /\ wsaved' = [wsaved EXCEPT ![r] = Push(@, bot_saved(env))]
    /\ env' = bot_disable_proxies(env)
    /\ wpc' = [wpc EXCEPT ![r] = "video"]
    /\ UNCHANGED <<wstatus, wres>>
    /\ UNCHANGED <<cancelled, start_env>>
    /\ OnlyBot

\* process_youtube_video(url, force_audio=False, skip_summary=False), the
\* acquisition stages: captions, or download, upload and transcription.
WorkerAcquire(r) ==
    /\ wpc[r] = "video"
    /\ \E outcome \in AcquireOutcomes :
        /\ wpc' = [wpc EXCEPT ![r] = IF outcome = "text" THEN "summarize"
                                     ELSE IF outcome = "failed" THEN "sleep"
                                     ELSE "restore"]
        /\ wres' = [wres EXCEPT ![r] = IF outcome = "text" THEN "none"
                                       ELSE IF outcome = "failed" THEN "fail"
                                       ELSE "raised"]
    /\ UNCHANGED <<env, wsaved, wstatus>>
    /\ UNCHANGED <<handlers, cancelled, start_env>>
    /\ OnlyBot

\* summarize_text inside process_youtube_video: with no_proxy_context().
WorkerSummarizeEnter(r) ==
    /\ wpc[r] = "summarize"
    /\ wsaved' = [wsaved EXCEPT ![r] = Push(@, no_proxy_saved(env))]
    /\ env' = no_proxy_enter(env)
    /\ wpc' = [wpc EXCEPT ![r] = "api"]
    /\ UNCHANGED <<wstatus, wres>>
    /\ UNCHANGED <<handlers, cancelled, start_env>>
    /\ OnlyBot

\* The completion request of _call_api; it never raises out of _call_api.
WorkerCallApi(r) ==
    /\ wpc[r] = "api"
    /\ wpc' = [wpc EXCEPT ![r] = "leave"]
    /\ UNCHANGED <<env, wsaved, wstatus, wres>>
    /\ UNCHANGED <<handlers, cancelled, start_env>>
    /\ OnlyBot

\* The finally clause of no_proxy_context; process_youtube_video then returns
\* success=True, with the summary or the summary error.
WorkerSummarizeExit(r) ==
    /\ wpc[r] = "leave"
    /\ env' = no_proxy_exit(env, Top(wsaved[r]))
    /\ wsaved' = [wsaved EXCEPT ![r] = Pop(@)]
    /\ wpc' = [wpc EXCEPT ![r] = "sleep"]
    /\ wres' = [wres EXCEPT ![r] = "ok"]
    /\ UNCHANGED wstatus
    /\ UNCHANGED <<handlers, cancelled, start_env>>
    /\ OnlyBot

\* process_youtube_in_thread, line 583: time.sleep(1).
WorkerSleep(r) ==
    /\ wpc[r] = "sleep"
    /\ wpc' = [wpc EXCEPT ![r] = "final"]
    /\ UNCHANGED <<env, wsaved, wstatus, wres>>
    /\ UNCHANGED <<handlers, cancelled, start_env>>
    /\ OnlyBot

\* send_final_result, line 607: original_proxies = disable_proxies().
FinalDisable(r) ==
    /\ wpc[r] = "final"
    /\ wsaved' = [wsaved EXCEPT ![r] = Push(@, bot_saved(env))]
    /\ env' = bot_disable_proxies(env)
    /\ wpc' = [wpc EXCEPT ![r] = "final_send"]
    /\ UNCHANGED <<wstatus, wres>>
    /\ UNCHANGED <<handlers, cancelled, start_env>>
    /\ OnlyBot

\* send_final_result, lines 610-728: the final text goes to the status message
\* (every failure to send is caught and logged).
FinalSend(r) ==
    /\ wpc[r] = "final_send"
    /\ \E delivered \in BOOLEAN :
        wstatus' = [wstatus EXCEPT ![r] =
                      IF ~delivered THEN @
                      ELSE IF wres[r] = "ok" THEN "processing done"
                      ELSE "processing failed"]
    /\ wpc' = [wpc EXCEPT ![r] = "final_restore"]
    /\ UNCHANGED <<env, wsaved, wres>>
    /\ UNCHANGED <<handlers, cancelled, start_env>>
    /\ OnlyBot

\* send_final_result, lines 729-731: finally restore_proxies(original_proxies).
FinalRestore(r) ==
    /\ wpc[r] = "final_restore"
    /\ env' = bot_restore_proxies(env, Top(wsaved[r]))
    /\ wsaved' = [wsaved EXCEPT ![r] = Pop(@)]
    /\ wpc' = [wpc EXCEPT ![r] = "restore"]
    /\ UNCHANGED <<wstatus, wres>>
    /\ UNCHANGED <<handlers, cancelled, start_env>>
    /\ OnlyBot

\* process_youtube_in_thread, lines 587-589: finally restore_proxies(original_proxies).
WorkerRestore(r) ==
    /\ wpc[r] = "restore"
    /\ env' = bot_restore_proxies(env, Top(wsaved[r]))
    /\ wsaved' = [wsaved EXCEPT ![r] = Pop(@)]
    /\ wpc' = [wpc EXCEPT ![r] = after_restore(wres[r])]
    /\ UNCHANGED <<wstatus, wres>>
    /\ UNCHANGED <<handlers, cancelled, start_env>>
    /\ OnlyBot

\* process_youtube_in_thread, lines 591-601: the exception is caught and an
\* error text is sent to the status message.
WorkerExcept(r) ==
    /\ wpc[r] = "except"
    /\ \E delivered \in BOOLEAN :
        wstatus' = [wstatus EXCEPT ![r] = IF delivered THEN "processing error" ELSE @]
    /\ wpc' = [wpc EXCEPT ![r] = "done"]
    /\ UNCHANGED <<env, wsaved, wres>>
    /\ UNCHANGED <<handlers, cancelled, start_env>>
    /\ OnlyBot

\* cancel: the /cancel command while a run is in progress; user_data is
\* cleared and a reply is sent, the worker threads are not told.
Cancel ==
    /\ ~cancelled
    /\ \E r \in Runs : wpc[r] \notin {"idle", "done"}
    /\ cancelled' = TRUE
    /\ UNCHANGED <<env, wpc, wsaved, wstatus, wres, handlers, start_env>>
    /\ OnlyBot

\* start_summary_bot.process_youtube_in_thread, line 236:
\* original_proxies = disable_proxies(), the one of proxy_manager.
SbDisable(r) ==
    /\ wpc[r] = "start"
    /\ wsaved' = [wsaved EXCEPT ![r] = Push(@, pm_saved(env))]
    /\ env' = pm_disable_proxies(env)
    /\ wpc' = [wpc EXCEPT ![r] = "video"]
    /\ UNCHANGED <<wstatus, wres>>
    /\ UNCHANGED <<handlers, cancelled, start_env>>
    /\ OnlyBot

\* start_summary_bot.process_youtube_in_thread, lines 242-265: the outcome is
\* written to the status message.
SbReply(r) ==
    /\ wpc[r] = "sleep"
    /\ \E delivered \in BOOLEAN :
        wstatus' = [wstatus EXCEPT ![r] =
                      IF ~delivered THEN @
                      ELSE IF wres[r] = "ok" THEN "processing done"
                      ELSE "processing failed"]
    /\ wpc' = [wpc EXCEPT ![r] = "restore"]
    /\ UNCHANGED <<env, wsaved, wres>>
    /\ UNCHANGED <<handlers, cancelled, start_env>>
    /\ OnlyBot

\* start_summary_bot.process_youtube_in_thread, lines 269-271: finally
\* restore_proxies(original_proxies), after the except clause of line 266.
SbRestore(r) ==
    /\ wpc[r] = "restore"
    /\ env' = pm_restore_proxies(env, Top(wsaved[r]))
    /\ wsaved' = [wsaved EXCEPT ![r] = Pop(@)]
    /\ wpc' = [wpc EXCEPT ![r] = "done"]
    /\ UNCHANGED <<wstatus, wres>>
    /\ UNCHANGED <<handlers, cancelled, start_env>>
    /\ OnlyBot

\* A link arrives when no earlier run is still in progress.
StartRunAlone(r) ==
    /\ \A q \in Runs \ {r} : wpc[q] \in {"idle", "done"}
    /\ StartRun(r)

\* The steps of one run of start_summary_bot.process_youtube_in_thread.
SbStep(r) ==
    \/ SbDisable(r)
    \/ WorkerAcquire(r)
    \/ WorkerSummarizeEnter(r)
    \/ WorkerCallApi(r)
    \/ WorkerSummarizeExit(r)
    \/ SbReply(r)
    \/ SbRestore(r)

\* handle_message starts a thread for every link: runs side by side.
SbNext == \E r \in Runs : StartRun(r) \/ SbStep(r)

\* Runs one after the other.
SbSeqNext == \E r \in Runs : StartRunAlone(r) \/ SbStep(r)

BotNext ==
    \/ Cancel
    \/ \E r \in Runs :
        \/ StartRun(r)
        \/ WorkerDisable(r)
        \/ WorkerAcquire(r)
        \/ WorkerSummarizeEnter(r)
        \/ WorkerCallApi(r)
        \/ WorkerSummarizeExit(r)
        \/ WorkerSleep(r)
        \/ FinalDisable(r)
        \/ FinalSend(r)
        \/ FinalRestore(r)
        \/ WorkerRestore(r)
        \/ WorkerExcept(r)

----------------------------------------------------------------------------
(* One summary run and its LogCollector (SpecCollector) *)

\* Progress records the pipeline of one run logs.
MaxLogs == 2
\* Edit calls of the collector that the transport rejects with an error.
MaxFailures == 1
\* Longest time, in seconds, one pass of the collector's loop takes.
MaxPass == 2

\* collect_logs: the shortest time between two forwards with new records.
MIN_INTERVAL == 3
\* collect_logs: the time after which a forward is due without new records.
HEARTBEAT == 10
\* collect_logs: the number of records a forward renders.
RECENT == 10

\* Formatted records the pipeline logs; two records may read the same.
LogLines == {"line a", "line b"}
\* logger.error(f"更新消息失败: ...") of the collector, and the workers' error records.
EditFailedLine == "ERROR update failed"
WorkerErrorLine == "ERROR worker"

Min(a, b) == IF a < b THEN a ELSE b
Max(a, b) == IF a > b THEN a ELSE b

\* QueueHandler.emit: self.log_queue.put(self.format(record)).
put(q, record) == Append(q, record)

\* drain with each record taken placed before the ones taken earlier.
drain_prepending(ls, q) == [i \in 1..Len(q) |-> q[Len(q) + 1 - i]] \o ls

\* collect_logs, lines 489-493: get_nowait until the queue is empty, each
\* record appended to self.logs.
drain(ls, q) == ls \o q

\* Every record, without the window.
recent_logs_all(ls) == ls

\* self.logs[-10:]
recent_logs(ls) == SubSeq(ls, Max(1, Len(ls) - RECENT + 1), Len(ls))

\* The progress text of collect_logs, lines 504-510.
render(ls) == <<"progress">> \o recent_logs(ls)

\* collect_logs, lines 497-500.
should_update(since, added, ls) ==
    ((since >= MIN_INTERVAL /\ added) \/ since >= HEARTBEAT) /\ ls /= <<>>

\* text_changed without the comparison: every due forward is attempted.
text_changed_always(message_text, last) == TRUE

\* collect_logs, line 513: the forward is attempted only for a changed text.
text_changed(message_text, last) == message_text /= last

\* collect_logs, line 521: what the collector remembers after a successful edit.
remembered_text(message_text, last) == message_text

\* What bot.edit_message_text comes to: done, rejected as "Message is not
\* modified", or another error.
EditOutcomes == {"ok", "not_modified", "error"}

NoEdit == [by |-> "nobody", text |-> <<>>, outcome |-> "ok", seq |-> 0]
Edit(by, text, outcome) ==
    [by |-> by, text |-> text, outcome |-> outcome, seq |-> 1 - last_edit.seq]

CollInit ==
    /\ log_queue = <<>>
    /\ running = FALSE
    /\ logs = <<>>
    /\ since_update = HEARTBEAT
    /\ last_message_text = <<>>
    /\ cpc = "unstarted"
    /\ new_logs_added = FALSE
    /\ status_msg = <<>>
    /\ tpc = "idle"
    /\ tres = "none"
    /\ emitted = 0
    /\ edit_failures = 0
    /\ last_edit = NoEdit
    /\ last_ok_text = <<>>
    /\ final_written = FALSE
    /\ since_edit = MIN_INTERVAL + 1
    /\ other_logs = <<>>
    /\ put_order = <<>>

CollIdle ==
    /\ log_queue = <<>>
    /\ running = FALSE
    /\ logs = <<>>
    /\ since_update = HEARTBEAT
    /\ last_message_text = <<>>
    /\ cpc = "unused"
    /\ new_logs_added = FALSE
    /\ status_msg = <<>>
    /\ tpc = "unused"
    /\ tres = "none"
    /\ emitted = 0
    /\ edit_failures = 0
    /\ last_edit = NoEdit
    /\ last_ok_text = <<>>
    /\ final_written = FALSE
    /\ since_edit = MIN_INTERVAL + 1
    /\ other_logs = <<>>
    /\ put_order = <<>>

\* The components a step of this run leaves alone.
OnlyColl == UNCHANGED <<env, scopeVars, pipeVars, botVars, capVars, cliVars, restVars,
                        other_logs>>

\* handle_summary_request: the status message is sent, the LogCollector is
\* built (running = True, last_update_time = 0, last_message_text = "") and
\* started, and the worker thread is started.
HandleSummaryRequest ==
    /\ tpc = "idle"
    /\ status_msg' = <<"started">>
    /\ running' = TRUE
    /\ logs' = <<>>
    /\ since_update' = HEARTBEAT
    /\ last_message_text' = <<>>
    /\ cpc' = "loop"
    /\ tpc' = "run"
    /\ UNCHANGED <<log_queue, new_logs_added, tres, emitted, edit_failures,
                   last_edit, last_ok_text, final_written, since_edit, put_order>>
    /\ OnlyColl

\* A logger.info of the pipeline: QueueHandler.emit puts the formatted record.
WorkerLog ==
    /\ tpc = "run"
    /\ emitted < MaxLogs
    /\ \E line \in LogLines : /\ log_queue' = put(log_queue, line)
                              /\ put_order' = Append(put_order, line)
    /\ emitted' = emitted + 1
    /\ UNCHANGED <<running, logs, since_update, last_message_text, cpc, new_logs_added,
                   status_msg, tpc, tres, edit_failures, last_edit, last_ok_text,
                   final_written, since_edit>>
    /\ OnlyColl

\* process_youtube_video returns its result, or an exception leaves it.
WorkerFinish ==
    /\ tpc = "run"
    /\ \E outcome \in {"ok", "fail", "raises"} :
        /\ tres' = IF outcome = "raises" THEN "none" ELSE outcome
        /\ tpc' = IF outcome = "raises" THEN "except" ELSE "sleep"
    /\ UNCHANGED <<log_queue, running, logs, since_update, last_message_text, cpc,
                   new_logs_added, status_msg, emitted, edit_failures, last_edit,
                   last_ok_text, final_written, since_edit, put_order>>
    /\ OnlyColl

\* process_youtube_in_thread, line 583: time.sleep(1).
WorkerWait ==
    /\ tpc = "sleep"
    /\ tpc' = "final"
    /\ UNCHANGED <<log_queue, running, logs, since_update, last_message_text, cpc,
                   new_logs_added, status_msg, tres, emitted, edit_failures, last_edit,
                   last_ok_text, final_written, since_edit, put_order>>
    /\ OnlyColl

\* send_final_result: the final text is written to the status message; a
\* failed edit is logged (logger.error) and nothing else is done about it.
SendFinalResult ==
    /\ tpc = "final"
    /\ \E outcome \in EditOutcomes :
        LET text == IF tres = "ok" THEN <<"final", "done">> ELSE <<"final", "failed">>
        IN  /\ last_edit' = Edit("worker", text, outcome)
            /\ IF outcome = "ok"
               THEN /\ status_msg' = text
                    /\ final_written' = TRUE
                    /\ UNCHANGED <<log_queue, put_order>>
               ELSE /\ log_queue' = put(log_queue, WorkerErrorLine)
                    /\ put_order' = Append(put_order, WorkerErrorLine)
                    /\ UNCHANGED <<status_msg, final_written>>
    /\ tpc' = "done"
    /\ UNCHANGED <<running, logs, since_update, last_message_text, cpc, new_logs_added,
                   tres, emitted, edit_failures, last_ok_text, since_edit>>
    /\ OnlyColl

\* process_youtube_in_thread, lines 591-601: the exception is logged and the
\* error text is written to the status message.
WorkerError ==
    /\ tpc = "except"
    /\ \E outcome \in EditOutcomes :
        LET text == <<"final", "error">>
        IN  /\ last_edit' = Edit("worker", text, outcome)
            /\ IF outcome = "ok"
               THEN /\ status_msg' = text
                    /\ log_queue' = put(log_queue, WorkerErrorLine)
                    /\ put_order' = Append(put_order, WorkerErrorLine)
               ELSE /\ log_queue' = put(put(log_queue, WorkerErrorLine), WorkerErrorLine)
                    /\ put_order' = put_order \o <<WorkerErrorLine, WorkerErrorLine>>
                    /\ UNCHANGED status_msg
    /\ tpc' = "done"
    /\ UNCHANGED <<final_written, running, logs, since_update, last_message_text, cpc,
                   new_logs_added, tres, emitted, edit_failures, last_ok_text, since_edit>>
    /\ OnlyColl

\* collect_logs, lines 485-493: the loop test and the drain of the queue.
CollectorDrain ==
    /\ cpc = "loop"
    /\ IF running
       THEN /\ logs' = drain(logs, log_queue)
            /\ new_logs_added' = (log_queue /= <<>>)
            /\ log_queue' = <<>>
            /\ cpc' = "update"
       ELSE /\ cpc' = "stopped"
            /\ UNCHANGED <<logs, new_logs_added, log_queue>>
    /\ UNCHANGED <<running, since_update, last_message_text, status_msg, tpc, tres,
                   emitted, edit_failures, last_edit, last_ok_text, final_written,
                   since_edit, put_order>>
    /\ OnlyColl

\* collect_logs, lines 496-528: the forward, when one is due.
CollectorUpdate ==
    /\ cpc = "update"
    /\ LET message_text == render(logs)
       IN  IF ~should_update(since_update, new_logs_added, logs)
           THEN UNCHANGED <<since_update, last_message_text, status_msg, log_queue,
                            edit_failures, last_edit, last_ok_text, since_edit,
                            put_order>>
           ELSE IF ~text_changed(message_text, last_message_text)
           THEN /\ since_update' = 0
                /\ UNCHANGED <<last_message_text, status_msg, log_queue, edit_failures,
                               last_edit, last_ok_text, since_edit, put_order>>
           ELSE \E outcome \in EditOutcomes :
                /\ outcome = "error" => edit_failures < MaxFailures
                /\ last_edit' = Edit("collector", message_text, outcome)
                /\ since_edit' = 0
                /\ IF outcome = "ok"
                   THEN /\ status_msg' = message_text
                        /\ last_message_text' = remembered_text(message_text,
                                                                last_message_text)
                        /\ last_ok_text' = message_text
                        /\ since_update' = 0
                        /\ UNCHANGED <<log_queue, edit_failures, put_order>>
                   ELSE /\ log_queue' = IF outcome = "error"
                                        THEN put(log_queue, EditFailedLine)
                                        ELSE log_queue
                        /\ put_order' = IF outcome = "error"
                                        THEN Append(put_order, EditFailedLine)
                                        ELSE put_order
                        /\ edit_failures' = IF outcome = "error" THEN edit_failures + 1
                                            ELSE edit_failures
                        /\ UNCHANGED <<status_msg, last_message_text, last_ok_text,
                                       since_update>>
    /\ cpc' = "sleep"
    /\ UNCHANGED <<running, logs, new_logs_added, tpc, tres, emitted, final_written>>
    /\ OnlyColl

\* collect_logs, line 530: time.sleep(1); the pass has taken d seconds.
CollectorSleep ==
    /\ cpc = "sleep"
    /\ \E d \in 1..MaxPass : /\ since_update' = Min(since_update + d, HEARTBEAT)
                              /\ since_edit' = Min(since_edit + d, MIN_INTERVAL + 1)
    /\ cpc' = "loop"
    /\ UNCHANGED <<log_queue, running, logs, last_message_text, new_logs_added,
                   status_msg, tpc, tres, emitted, edit_failures, last_edit,
                   last_ok_text, final_written, put_order>>
    /\ OnlyColl

\* A record logged by the pipeline of another run.
OtherLine == "line of the other run"

\* A logger.info of another run in progress: the handlers of the root logger
\* put the record on the one log_queue.
OtherRunLog ==
    /\ tpc = "run"
    /\ Count(put_order, OtherLine) < MaxLogs
    /\ log_queue' = put(log_queue, OtherLine)
    /\ put_order' = Append(put_order, OtherLine)
    /\ UNCHANGED <<running, logs, since_update, last_message_text, cpc, new_logs_added,
                   status_msg, tpc, tres, emitted, edit_failures, last_edit,
                   last_ok_text, final_written, since_edit, other_logs>>
    /\ UNCHANGED <<env, scopeVars, pipeVars, botVars, capVars, cliVars, restVars>>

\* collect_logs, lines 489-493, in the LogCollector of the other run: it
\* drains the same log_queue.
OtherCollectorDrain ==
    /\ tpc = "run"
    /\ log_queue /= <<>>
    /\ other_logs' = drain(other_logs, log_queue)
    /\ log_queue' = <<>>
    /\ UNCHANGED <<running, logs, since_update, last_message_text, cpc, new_logs_added,
                   status_msg, tpc, tres, emitted, edit_failures, last_edit,
                   last_ok_text, final_written, since_edit, put_order>>
    /\ UNCHANGED <<env, scopeVars, pipeVars, botVars, capVars, cliVars, restVars>>

\* Two summary runs at work, each with its LogCollector.
TwoRunsNext ==
    \/ HandleSummaryRequest
    \/ WorkerLog
    \/ CollectorDrain
    \/ CollectorUpdate
    \/ CollectorSleep
    \/ OtherRunLog
    \/ OtherCollectorDrain

\* Records put on log_queue while no collector was running: the queue is a
\* module-level object and the handlers stay on the root logger.
Backlog == <<"old 01", "old 02", "old 03", "old 04", "old 05", "old 06",
             "old 07", "old 08", "old 09", "old 10", "old 11">>

\* A summary request that finds the first k of those records in the queue,
\* k around the size of the window.
BacklogInit ==
    /\ \E k \in (RECENT - 1)..Len(Backlog) : /\ log_queue = SubSeq(Backlog, 1, k)
                                   /\ put_order = SubSeq(Backlog, 1, k)
    /\ running = FALSE
    /\ logs = <<>>
    /\ since_update = HEARTBEAT
    /\ last_message_text = <<>>
    /\ cpc = "unstarted"
    /\ new_logs_added = FALSE
    /\ status_msg = <<>>
    /\ tpc = "idle"
    /\ tres = "none"
    /\ emitted = 0
    /\ edit_failures = 0
    /\ last_edit = NoEdit
    /\ last_ok_text = <<>>
    /\ final_written = FALSE
    /\ since_edit = MIN_INTERVAL + 1
    /\ other_logs = <<>>

\* The collector's loop while its run is still at work.
BacklogNext ==
    \/ HandleSummaryRequest
    \/ WorkerLog
    \/ CollectorDrain
    \/ CollectorUpdate
    \/ CollectorSleep

CollNext ==
    \/ HandleSummaryRequest
    \/ WorkerLog
    \/ WorkerFinish
    \/ WorkerWait
    \/ SendFinalResult
    \/ WorkerError
    \/ CollectorDrain
    \/ CollectorUpdate
    \/ CollectorSleep

----------------------------------------------------------------------------
(* SubtitleExtractor.extract on the caption tracks of one video (SpecCaptions) *)

\* Most languages one caption dict of the video info lists.
MaxLangs == 2

\* config.settings.SUPPORTED_LANGUAGES, the language preference list.
SUPPORTED_LANGUAGES == <<"zh-Hans", "zh-CN", "zh", "en">>
\* _find_best_subtitle: preferred_formats.
PREFERRED_FORMATS == <<"vtt", "ttml", "srv3", "srv2", "srv1", "json3">>

\* Languages a video's caption dicts are keyed by: two of the preference
\* list, two outside it.
CaptionLangs == {"zh", "en", "fr", "de"}

\* One track of a language: its 'ext' and its 'url' (None when it has none).
Track(ext, url) == [ext |-> ext, url |-> url]
\* The track lists of a language: no track, one track, a json3 track ahead of
\* a vtt track, a track without URL ahead of one with a URL.
TrackLists ==
    {<<>>,
     <<Track("vtt", <<"https://caption/vtt">>)>>,
     <<Track("json3", <<"https://caption/json3">>), Track("vtt", <<"https://caption/vtt">>)>>,
     <<Track("xml", None), Track("sbv", <<"https://caption/sbv">>)>>}

\* A caption dict in insertion order: (language, track list) items, each
\* language once.
CaptionDicts(n) ==
    {d \in SeqUpTo([lang : CaptionLangs, tracks : TrackLists], n) :
        \A i, j \in 1..Len(d) : d[i].lang = d[j].lang => i = j}

\* What ydl.extract_info(url, download=False) gives extract: an exception,
\* nothing, or an info dict with 'subtitles' and 'automatic_captions'.
\* The longer dict is the manual one, or it is the automatic one of a video
\* without manual captions.
CaptionInfos ==
    {[kind |-> k, subtitles |-> <<>>, automatic_captions |-> <<>>] : k \in {"raises", "none"}}
    \cup {[kind |-> "info",
           subtitles |-> IF manual THEN d ELSE <<>>,
           automatic_captions |-> IF manual THEN a ELSE d] :
              d \in CaptionDicts(MaxLangs), a \in CaptionDicts(1), manual \in BOOLEAN}

\* lang in d
has_key(d, lang) == \E i \in 1..Len(d) : d[i].lang = lang
\* d[lang]
tracks_of(d, lang) == d[CHOOSE i \in 1..Len(d) : d[i].lang = lang].tracks

\* _find_best_subtitle, lines 145-158: the language, None when the dict has no key.
RECURSIVE first_supported(_, _)
first_supported(d, langs) ==
    IF langs = <<>> THEN None
    ELSE IF has_key(d, Head(langs)) /\ tracks_of(d, Head(langs)) /= <<>> THEN <<Head(langs)>>
    ELSE first_supported(d, Tail(langs))

select_language(d) ==
    LET selected_lang == first_supported(d, SUPPORTED_LANGUAGES)
    IN  IF selected_lang /= None THEN selected_lang
        ELSE IF d /= <<>> THEN <<d[1].lang>>
        ELSE None

\* _find_best_subtitle, lines 167-174: the first preferred format a track has.
RECURSIVE first_format(_, _)
first_format(formats, prefs) ==
    IF prefs = <<>> THEN NoDict
    ELSE IF \E i \in 1..Len(formats) : formats[i].ext = Head(prefs)
    THEN LET i == CHOOSE k \in 1..Len(formats) :
                      /\ formats[k].ext = Head(prefs)
                      /\ \A m \in 1..(k - 1) : formats[m].ext /= Head(prefs)
         IN  [url |-> formats[i].url, format |-> Head(prefs)]
    ELSE first_format(formats, Tail(prefs))

\* _find_best_subtitle without the test of lines 176-183 (if not subtitle_url).
find_best_subtitle_unchecked(info) ==
    LET subtitles_dict == IF info.subtitles /= <<>> THEN info.subtitles
                          ELSE info.automatic_captions
        selected_lang == select_language(subtitles_dict)
    IN  IF subtitles_dict = <<>> THEN NoDict
        ELSE [url |-> None, language |-> selected_lang[1], format |-> "unknown"]

\* SubtitleExtractor._find_best_subtitle
find_best_subtitle(info) ==
    LET subtitles_dict == IF info.subtitles /= <<>> THEN info.subtitles
                          ELSE info.automatic_captions
        selected_lang == select_language(subtitles_dict)
    IN  IF subtitles_dict = <<>> \/ selected_lang = None THEN NoDict
        ELSE LET subtitle_formats == tracks_of(subtitles_dict, selected_lang[1])
                 preferred == first_format(subtitle_formats, PREFERRED_FORMATS)
             IN  IF TruthyDict(preferred) /\ Truthy(preferred.url)
                 THEN [url |-> preferred.url, language |-> selected_lang[1],
                       format |-> preferred.format]
                 ELSE IF subtitle_formats /= <<>> /\ subtitle_formats[1].url /= None
                 THEN [url |-> subtitle_formats[1].url, language |-> selected_lang[1],
                       format |-> subtitle_formats[1].ext]
                 ELSE NoDict

\* extract, lines 60-68: what the info amounts to for the checks of extract.
info_kind(info) ==
    IF info.kind /= "info" THEN info.kind
    ELSE IF info.subtitles = <<>> /\ info.automatic_captions = <<>> THEN "nocaps"
    ELSE "caps"

\* The caption payloads of at most one line or segment.
ShortPayloads == {p \in Payloads : Len(p.items) <= 1}

CapInit ==
    /\ cap_info \in CaptionInfos
    /\ cap_pc = "start"
    /\ cap_sel = NoDict
    /\ cap_out = NoDict
    /\ cap_fetches = 0

CapIdle ==
    /\ cap_info = [kind |-> "none", subtitles |-> <<>>, automatic_captions |-> <<>>]
    /\ cap_pc = "unused"
    /\ cap_sel = NoDict
    /\ cap_out = NoDict
    /\ cap_fetches = 0

\* The components a step of extract leaves alone.
OnlyCap == UNCHANGED <<env, scopeVars, pipeVars, botVars, collVars, cliVars, restVars>>

\* extract, lines 57-73: the info is read and the track chosen; extract
\* returns None when there is no info, no caption dict, or no track chosen.
ExtractSelect ==
    /\ cap_pc = "start"
    /\ LET subtitles_info == IF info_kind(cap_info) = "caps"
                             THEN find_best_subtitle(cap_info) ELSE NoDict
       IN  /\ cap_sel' = subtitles_info
           /\ cap_pc' = IF TruthyDict(subtitles_info) THEN "download" ELSE "done"
    /\ UNCHANGED <<cap_info, cap_out, cap_fetches>>
    /\ OnlyCap

\* extract, lines 76-100: the payload is requested, parsed and saved.
ExtractDownload ==
    /\ cap_pc = "download"
    /\ \E payload \in ShortPayloads, saved \in BOOLEAN :
        cap_out' = extract([url_ok |-> TRUE, info |-> info_kind(cap_info),
                            selected |-> cap_sel, payload |-> payload, saved |-> saved])
    /\ cap_fetches' = cap_fetches + 1
    /\ cap_pc' = "done"
    /\ UNCHANGED <<cap_info, cap_sel>>
    /\ OnlyCap

CapNext ==
    \/ ExtractSelect
    \/ ExtractDownload

----------------------------------------------------------------------------
(* main(), the command line entry point (SpecCli) *)

\* What parse_args gives main, and under `file` what read_text_file finds at
\* the path of --text-file: None for a file that cannot be read.
CliArgs ==
    [text : {None, <<>>, <<"typed words">>},
     text_file : {None, <<"notes.txt">>},
     file : {None, <<>>, <<"file words">>},
     oss_url : {None, <<"https://oss/audio.mp3">>},
     url : {None, <<"https://youtu.be/id">>},
     force_audio : BOOLEAN,
     skip_summary : BOOLEAN,
     no_proxy : BOOLEAN]

\* main.py 300-336: the branch main takes.
select_mode(args) ==
    IF Truthy(args.text) THEN "text"
    ELSE IF Truthy(args.text_file) THEN "text_file"
    ELSE IF Truthy(args.oss_url) THEN "oss_url"
    ELSE "url"

\* A process_direct_text that succeeds only with a saved result file.
direct_text_result_needs_file(text, s, saved_file) ==
    LET res == [success |-> FALSE]
    IN  IF ~Truthy(s) THEN Put(res, "error", <<MARKER, ": nothing returned">>)
        ELSE IF startswith(s, MARKER) THEN Put(res, "error", s)
        ELSE LET r0 == Put(Put(res, "text", text), "summary", s)
             IN  IF Truthy(saved_file)
                 THEN Put(Put(r0, "summary_file", saved_file), "success", TRUE)
                 ELSE r0

\* process_direct_text, after summarize_text has returned s.
direct_text_result(text, s, saved_file) ==
    LET res == [success |-> FALSE]
    IN  IF ~Truthy(s) THEN Put(res, "error", <<MARKER, ": nothing returned">>)
        ELSE IF startswith(s, MARKER) THEN Put(res, "error", s)
        ELSE LET r0 == Put(Put(res, "text", text), "summary", s)
                 r1 == IF Truthy(saved_file) THEN Put(r0, "summary_file", saved_file)
                       ELSE r0
             IN  Put(r1, "success", TRUE)

\* A main that reports success whatever the outcome.
exit_code_zero(res) == 0

\* return 0 if result['success'] else 1
exit_code(res) == IF res.success THEN 0 ELSE 1

CliInit ==
    /\ cli_args \in CliArgs
    /\ cli_pc = "start"
    /\ cli_mode = "none"
    /\ cli_exit = "none"

CliIdle ==
    /\ cli_args = [text |-> None, text_file |-> None, file |-> None, oss_url |-> None,
                   url |-> None, force_audio |-> FALSE, skip_summary |-> FALSE,
                   no_proxy |-> FALSE]
    /\ cli_pc = "unused"
    /\ cli_mode = "none"
    /\ cli_exit = "none"

\* The components a step of main leaves alone.
OnlyCli == UNCHANGED <<scopeVars, botVars, collVars, capVars, restVars>>

\* main.py 295-345: --no-proxy is applied, the branch is chosen and its
\* processing function is entered; an unreadable or empty text file ends main
\* with 1.
CliMain ==
    /\ cli_pc = "start"
    /\ env' = IF cli_args.no_proxy THEN disable_all_proxies(env) ELSE env
    /\ LET mode == select_mode(cli_args)
           text_to_summarize == IF mode = "text" THEN cli_args.text ELSE cli_args.file
       IN  /\ cli_mode' = mode
           /\ IF mode \in {"text", "text_file"}
              THEN IF Truthy(text_to_summarize)
                   THEN /\ cli_pc' = "direct_text"
                        /\ pc' = "summarize"
                        /\ acquired' = text_to_summarize
                        /\ UNCHANGED <<cli_exit, force_audio, skip_summary>>
                   ELSE /\ cli_pc' = "exited"
                        /\ cli_exit' = 1
                        /\ UNCHANGED <<pc, acquired, force_audio, skip_summary>>
              ELSE /\ cli_pc' = "processing"
                   /\ pc' = IF mode = "oss_url" THEN "transcribe" ELSE "start"
                   /\ force_audio' = (mode = "url" /\ cli_args.force_audio)
                   /\ skip_summary' = cli_args.skip_summary
                   /\ UNCHANGED <<cli_exit, acquired>>
    /\ UNCHANGED <<cli_args, result, summary, sum_saved, calls, stage_fail,
                   asr_status, api_outcome>>
    /\ OnlyCli

\* process_direct_text, lines 203-222: the value of summarize_text becomes the
\* result; save_summary_result runs for a good summary only.
CliDirectText ==
    /\ cli_pc = "direct_text"
    /\ pc = "record"
    /\ \E saved_file \in {None, <<"summary_file.txt">>} :
        result' = direct_text_result(acquired, summary, saved_file)
    /\ calls' = IF summary_ok(summary) THEN Append(calls, "save") ELSE calls
    /\ pc' = "done"
    /\ cli_pc' = "processing"
    /\ UNCHANGED <<env, cli_args, cli_mode, cli_exit, force_audio, skip_summary,
                   acquired, summary, sum_saved, stage_fail, asr_status, api_outcome>>
    /\ OnlyCli

\* process_direct_text, lines 192-201: an empty text is answered with an
\* error at once, any other text goes to summarize_text.
DirectTextBegin ==
    /\ cli_pc = "direct_text"
    /\ pc = "direct_text"
    /\ IF ~Truthy(acquired)
       THEN /\ result' = Put([success |-> FALSE], "error", <<"no text to summarize">>)
            /\ pc' = "done"
            /\ cli_pc' = "processing"
       ELSE /\ pc' = "summarize"
            /\ UNCHANGED <<result, cli_pc>>
    /\ UNCHANGED <<env, cli_args, cli_mode, cli_exit, force_audio, skip_summary,
                   acquired, summary, sum_saved, calls, stage_fail, asr_status,
                   api_outcome>>
    /\ OnlyCli

\* process_direct_text called on its own, for every text and starting
\* environment.
DirectTextInit ==
    /\ pc = "direct_text"
    /\ acquired \in SummarizeTexts
    /\ force_audio = FALSE
    /\ skip_summary = FALSE
    /\ result = [success |-> FALSE]
    /\ summary = None
    /\ sum_saved = EmptyDict
    /\ calls = <<>>
    /\ stage_fail = "none"
    /\ asr_status = "none"
    /\ api_outcome = "none"
    /\ cli_args = [text |-> acquired, text_file |-> None, file |-> None,
                   oss_url |-> None, url |-> None, force_audio |-> FALSE,
                   skip_summary |-> FALSE, no_proxy |-> FALSE]
    /\ cli_exit = "none"
    /\ cli_pc = "direct_text"
    /\ cli_mode = "text"

\* main.py 321-322, 328-329, 347-348: print_result(result), then the return.
CliReturn ==
    /\ cli_pc = "processing"
    /\ pc = "done"
    /\ cli_exit' = exit_code(result)
    /\ cli_pc' = "exited"
    /\ UNCHANGED <<env, cli_args, cli_mode, pipeVars>>
    /\ OnlyCli

\* The processing function main has called: summarize_text for a text,
\* process_direct_oss_url (the pipeline from the transcription on) for an OSS
\* URL, process_youtube_video for a video URL.
CliSummarize == cli_pc = "direct_text" /\ SumNext
CliProcess == cli_pc = "processing" /\ PipeNext

DirectTextNext ==
    \/ DirectTextBegin
    \/ CliSummarize
    \/ CliDirectText

CliNext ==
    \/ CliMain
    \/ CliSummarize
    \/ CliDirectText
    \/ CliProcess
    \/ CliReturn

----------------------------------------------------------------------------
(* The bot's conversation with each user (SpecConversation) *)

\* The users who write to the bot, and the values of TELEGRAM_ALLOWED_USERS.
ConvUsers == {"u1", "u2"}
AllowedConfigs == {{}, {"u1"}}

\* What a user sends: the commands, and texts that are no commands (a menu
\* button's label, a text with a YouTube link, any other text).
Commands == {"/start", "/summary", "/download", "/chat", "/help", "/cancel", "/exit"}
Texts == {"button summary", "button download", "button chat", "youtube link", "other text"}

\* The test of start, help_command and cancel:
\* not (TELEGRAM_ALLOWED_USERS and user_id not in TELEGRAM_ALLOWED_USERS).
permitted(u, allowed) == ~(allowed /= {} /\ u \notin allowed)

\* main, lines 757-795: the callback the dispatcher runs for a message of a
\* user whose conversation is in `state`. Without a state the entry points
\* are tried, otherwise the handlers of the state and then the fallbacks;
\* /help also has a handler outside the conversation.
conv_handler(state, m) ==
    LET enter == CASE m = "/summary" -> "enter_summary_mode"
                   [] m = "/download" -> "enter_download_mode"
                   [] m = "/chat" -> "enter_chat_mode"
                   [] m \in Texts -> "handle_menu_choice"
                   [] OTHER -> "none"
        outside == IF m = "/help" THEN "help_command" ELSE "none"
        in_mode(text_handler) ==
            IF m = "/cancel" THEN "cancel"
            ELSE IF m \in Texts THEN text_handler
            ELSE outside
    IN  CASE state = "END" ->
               IF m = "/start" THEN "start"
               ELSE IF enter /= "none" THEN enter ELSE outside
          [] state = "MAIN" ->
               IF enter /= "none" THEN enter
               ELSE IF m = "/cancel" THEN "cancel" ELSE outside
          [] state = "SUMMARY" -> in_mode("handle_summary_request")
          [] state = "DOWNLOAD" -> in_mode("handle_download_request")
          [] state = "CHAT" ->
               IF m = "/exit" THEN "exit_chat_mode" ELSE in_mode("handle_chat_request")

\* The callback that handle_menu_choice comes to for a text.
menu_choice(m) ==
    CASE m = "button summary" -> "enter_summary_mode"
      [] m = "button download" -> "enter_download_mode"
      [] m = "button chat" -> "enter_chat_mode"
      [] m = "youtube link" -> "handle_summary_request"
      [] OTHER -> "none"

\* The state a callback returns; help_command returns None, which keeps the
\* state.
handler_state(h, state, m, ok) ==
    CASE h \in {"start", "cancel"} -> IF ok THEN "MAIN" ELSE "END"
      [] h = "enter_summary_mode" -> "SUMMARY"
      [] h = "enter_download_mode" -> "DOWNLOAD"
      [] h = "enter_chat_mode" -> "CHAT"
      [] h = "exit_chat_mode" -> "MAIN"
      [] h = "handle_summary_request" -> "SUMMARY"
      [] h = "handle_download_request" -> "DOWNLOAD"
      [] h = "handle_chat_request" -> "CHAT"
      [] h = "handle_menu_choice" ->
           CASE menu_choice(m) = "enter_summary_mode" -> "SUMMARY"
             [] menu_choice(m) = "enter_download_mode" -> "DOWNLOAD"
             [] menu_choice(m) = "enter_chat_mode" -> "CHAT"
             [] menu_choice(m) = "handle_summary_request" -> "SUMMARY"
             [] OTHER -> "MAIN"
      [] OTHER -> state

\* The threads a callback starts: process_youtube_in_thread,
\* download_audio_in_thread, process_chat_in_thread.
handler_starts(h, m) ==
    LET link == (m = "youtube link")
    IN  CASE h = "handle_summary_request" /\ link -> {"summary"}
          [] h = "handle_menu_choice" /\ link -> {"summary"}
          [] h = "handle_download_request" /\ link -> {"download"}
          [] h = "handle_chat_request" -> {"chat"}
          [] OTHER -> {}

ConvInit ==
    /\ allowed_users \in AllowedConfigs
    /\ conv_state = [u \in ConvUsers |-> "END"]
    /\ started = [u \in ConvUsers |-> {}]

ConvIdle ==
    /\ allowed_users = {}
    /\ conv_state = <<>>
    /\ started = <<>>

\* The dispatcher handles one message of user u.
HandleUpdate(u, m) ==
    LET h == conv_handler(conv_state[u], m)
    IN  /\ conv_state' = [conv_state EXCEPT ![u] =
                             handler_state(h, @, m, permitted(u, allowed_users))]
        /\ started' = [started EXCEPT ![u] = @ \cup handler_starts(h, m)]
        /\ UNCHANGED <<allowed_users, env, scopeVars, pipeVars, botVars, collVars,
                       capVars, cliVars, artVars, itVars, legVars>>

ConvNext == \E u \in ConvUsers, m \in Commands \cup Texts : HandleUpdate(u, m)

----------------------------------------------------------------------------
(* Result files of runs at work at the same time (SpecArtifacts) *)

\* Clock readings per second, and the last reading of the clock.
TicksPerSecond == 2
MaxClock == 3

\* datetime.now().strftime("%Y%m%d%H%M%S"): the time cut to whole seconds.
timestamp(clock) == clock \div TicksPerSecond

\* The paths under RESULTS_DIR that the three save functions build.
save_summary(clock) == <<"summary_", timestamp(clock), ".txt">>
save_transcription_result(clock) == <<"transcription_", timestamp(clock), ".txt">>
save_subtitle(language, clock) == <<"subtitle_", language, "_", timestamp(clock), ".txt">>

ArtInit ==
    /\ art_clock = 0
    /\ art_pc = [r \in Runs |-> "acquire"]
    /\ art_files = {}

ArtIdle ==
    /\ art_clock = 0
    /\ art_pc = <<>>
    /\ art_files = {}

OnlyArt == UNCHANGED <<env, scopeVars, pipeVars, botVars, collVars, capVars, cliVars,
                       convVars, itVars, legVars>>

\* Time passes.
ArtTick ==
    /\ art_clock < MaxClock
    /\ art_clock' = art_clock + 1
    /\ UNCHANGED <<art_pc, art_files>>
    /\ OnlyArt

\* Run r has its text from captions: _save_subtitle writes the subtitle file.
ArtSaveSubtitle(r) ==
    /\ art_pc[r] = "acquire"
    /\ \E language \in {"zh", "en"} :
        art_files' = art_files \cup {[path |-> save_subtitle(language, art_clock), run |-> r]}
    /\ art_pc' = [art_pc EXCEPT ![r] = "summarize"]
    /\ UNCHANGED art_clock
    /\ OnlyArt

\* Run r has its text from the ASR job: _save_transcription_result writes the
\* transcription file.
ArtSaveTranscription(r) ==
    /\ art_pc[r] = "acquire"
    /\ art_files' = art_files \cup {[path |-> save_transcription_result(art_clock), run |-> r]}
    /\ art_pc' = [art_pc EXCEPT ![r] = "summarize"]
    /\ UNCHANGED art_clock
    /\ OnlyArt

\* Run r has its summary: save_summary writes the summary file.
ArtSaveSummary(r) ==
    /\ art_pc[r] = "summarize"
    /\ art_files' = art_files \cup {[path |-> save_summary(art_clock), run |-> r]}
    /\ art_pc' = [art_pc EXCEPT ![r] = "done"]
    /\ UNCHANGED art_clock
    /\ OnlyArt

ArtNext ==
    \/ ArtTick
    \/ \E r \in Runs : ArtSaveSubtitle(r)
    \/ \E r \in Runs : ArtSaveTranscription(r)
    \/ \E r \in Runs : ArtSaveSummary(r)

----------------------------------------------------------------------------
(* main_function of the integration script (SpecIntegration) *)

\* The proxy address given with --youtube-proxy.
YoutubeProxy == "http://youtube-proxy:1080"

\* The four variables the script saves, clears and sets.
SCRIPT_VARS == {"HTTP_PROXY", "http_proxy", "HTTPS_PROXY", "https_proxy"}

\* args, and whether step 1 is due
\* (not args.skip_download and youtube_url and not audio_file).
ItArgs == [youtube_proxy : {None, <<YoutubeProxy>>}, no_proxy : BOOLEAN, download : BOOLEAN]

\* os.environ[proxy_var] = args.youtube_proxy, for the four variables.
set_youtube_proxy(e) == [n \in DOMAIN e |-> IF n \in SCRIPT_VARS THEN YoutubeProxy ELSE e[n]]

\* for proxy_var, value in original_proxies.items(): os.environ[proxy_var] = value
restore_after_download(e, saved) == Reapply(e, saved)

ItInit ==
    /\ it_args \in ItArgs
    /\ it_pc = "start"
    /\ original_proxies = EmptyDict
    /\ it_entry_env = env

ItIdle ==
    /\ it_args = [youtube_proxy |-> None, no_proxy |-> FALSE, download |-> FALSE]
    /\ it_pc = "unused"
    /\ original_proxies = EmptyDict
    /\ it_entry_env = [n \in ProxyVars |-> Absent]

OnlyIt == UNCHANGED <<scopeVars, pipeVars, botVars, collVars, capVars, cliVars,
                      convVars, artVars, legVars>>

\* integration_test.py 52-66: the proxy settings are saved, and cleared under
\* --no-proxy.
ItSaveProxies ==
    /\ it_pc = "start"
    /\ original_proxies' = Snapshot(env, SCRIPT_VARS)
    /\ env' = IF it_args.no_proxy
              THEN [Unset(env, SCRIPT_VARS) EXCEPT !["NO_PROXY"] = "*"]
              ELSE env
    /\ it_pc' = IF it_args.download THEN "set_proxy" ELSE "upload"
    /\ UNCHANGED <<it_args, it_entry_env>>
    /\ OnlyIt

\* integration_test.py 73-83: the proxy of --youtube-proxy is set for the
\* download.
ItSetProxy ==
    /\ it_pc = "set_proxy"
    /\ env' = IF Truthy(it_args.youtube_proxy) /\ ~it_args.no_proxy
              THEN set_youtube_proxy(env)
              ELSE env
    /\ it_pc' = "download"
    /\ UNCHANGED <<it_args, original_proxies, it_entry_env>>
    /\ OnlyIt

\* integration_test.py 85-96: download_audio, the restore, and the return on
\* a failed download.
ItDownload ==
    /\ it_pc = "download"
    /\ env' = IF ~it_args.no_proxy
              THEN restore_after_download(env, original_proxies)
              ELSE env
    /\ \E audio_file \in {None, <<"audio.webm">>} :
        it_pc' = IF Truthy(audio_file) THEN "upload" ELSE "exited"
    /\ UNCHANGED <<it_args, original_proxies, it_entry_env>>
    /\ OnlyIt

\* integration_test.py 98 onwards: the steps after the download.
ItLaterSteps ==
    /\ it_pc = "upload"
    /\ it_pc' = "exited"
    /\ UNCHANGED <<env, it_args, original_proxies, it_entry_env>>
    /\ OnlyIt

ItNext ==
    \/ ItSaveProxies
    \/ ItSetProxy
    \/ ItDownload
    \/ ItLaterSteps

----------------------------------------------------------------------------
(* The full flow of the legacy main() (SpecLegacy) *)

\* args of the full flow.
LegArgs == [force_audio : BOOLEAN, skip_summary : BOOLEAN, skip_transcribe : BOOLEAN]

\* What the legacy transcribe_audio returns.
LegacyResults ==
    {[error |-> <<"transcription failed">>],
     [full_text |-> <<"spoken words">>],
     [full_text |-> <<"spoken words">>, summary |-> <<"a summary">>],
     [full_text |-> <<"spoken words">>, saved_file |-> <<"transcription_file.txt">>]}

\* What the object store does on delete_file_from_oss.
DeleteOutcomes == {"not_exists", "status_204", "status_other", "oss_error", "raises"}

\* delete_file_from_oss: True only for a deletion answered with 204.
delete_file_from_oss(outcome) == outcome = "status_204"

\* A main that fails when the temporary object could not be deleted.
legacy_exit_code_strict(res, deleted) ==
    IF "error" \in DOMAIN res \/ ~deleted THEN 1 ELSE 0

\* main, lines 1023-1051: 1 for a result with 'error', else 0.
legacy_exit_code(res, deleted) == IF "error" \in DOMAIN res THEN 1 ELSE 0

LegInit ==
    /\ leg_args \in LegArgs
    /\ leg_pc = "start"
    /\ leg_result = EmptyDict
    /\ leg_deleted = FALSE
    /\ leg_calls = <<>>
    /\ leg_exit = {}

LegIdle ==
    /\ leg_args = [force_audio |-> FALSE, skip_summary |-> FALSE, skip_transcribe |-> FALSE]
    /\ leg_pc = "unused"
    /\ leg_result = EmptyDict
    /\ leg_deleted = FALSE
    /\ leg_calls = <<>>
    /\ leg_exit = {}

OnlyLeg == UNCHANGED <<env, scopeVars, pipeVars, botVars, collVars, capVars, cliVars,
                       convVars, artVars, itVars>>

\* main, lines 945-1000: the subtitles are tried unless --force-audio; a run
\* that found them ends with 0.
LegSubtitles ==
    /\ leg_pc = "start"
    /\ IF leg_args.force_audio
       THEN /\ leg_pc' = "download"
            /\ UNCHANGED <<leg_calls, leg_exit>>
       ELSE /\ leg_calls' = Append(leg_calls, "extract_youtube_subtitles")
            /\ \E found \in BOOLEAN :
                 /\ leg_pc' = IF found THEN "exited" ELSE "download"
                 /\ leg_exit' = IF found THEN {0} ELSE leg_exit
    /\ UNCHANGED <<leg_args, leg_result, leg_deleted>>
    /\ OnlyLeg

\* main, lines 1003-1006
LegDownload ==
    /\ leg_pc = "download"
    /\ leg_calls' = Append(leg_calls, "download_audio_from_youtube")
    /\ \E audio_file \in {None, <<"audio.webm">>} :
         /\ leg_pc' = IF Truthy(audio_file) THEN "upload" ELSE "exited"
         /\ leg_exit' = IF Truthy(audio_file) THEN leg_exit ELSE {1}
    /\ UNCHANGED <<leg_args, leg_result, leg_deleted>>
    /\ OnlyLeg

\* main, lines 1009-1012, and 1015, 1043-1051 under --skip-transcribe
LegUpload ==
    /\ leg_pc = "upload"
    /\ leg_calls' = Append(leg_calls, "upload_file_to_oss")
    /\ \E oss_url \in {None, <<"https://oss/signed">>} :
         IF ~Truthy(oss_url)
         THEN leg_pc' = "exited" /\ leg_exit' = {1}
         ELSE IF leg_args.skip_transcribe
         THEN leg_pc' = "exited" /\ leg_exit' = {0}
         ELSE leg_pc' = "transcribe" /\ UNCHANGED leg_exit
    /\ UNCHANGED <<leg_args, leg_result, leg_deleted>>
    /\ OnlyLeg

\* main, line 1016
LegTranscribe ==
    /\ leg_pc = "transcribe"
    /\ leg_calls' = Append(leg_calls, "transcribe_audio")
    /\ leg_result' \in LegacyResults
    /\ leg_pc' = "delete"
    /\ UNCHANGED <<leg_args, leg_deleted, leg_exit>>
    /\ OnlyLeg

\* main, lines 1018-1021
LegDelete ==
    /\ leg_pc = "delete"
    /\ leg_calls' = Append(leg_calls, "delete_file_from_oss")
    /\ \E outcome \in DeleteOutcomes : leg_deleted' = delete_file_from_oss(outcome)
    /\ leg_pc' = "report"
    /\ UNCHANGED <<leg_args, leg_result, leg_exit>>
    /\ OnlyLeg

\* main, lines 1023-1051
LegReturn ==
    /\ leg_pc = "report"
    /\ leg_exit' = {legacy_exit_code(leg_result, leg_deleted)}
    /\ leg_pc' = "exited"
    /\ UNCHANGED <<leg_args, leg_result, leg_deleted, leg_calls>>
    /\ OnlyLeg

LegNext ==
    \/ LegSubtitles
    \/ LegDownload
    \/ LegUpload
    \/ LegTranscribe
    \/ LegDelete
    \/ LegReturn

\* The components of this part at rest.
RestIdle == ConvIdle /\ ArtIdle /\ ItIdle /\ LegIdle

----------------------------------------------------------------------------
(* Specifications *)

\* process_youtube_video, for every pair of flags and every starting environment.
Init == env \in PipelineEnvs /\ PipeInit /\ ScopeIdle /\ BotIdle /\ CollIdle /\ CapIdle
        /\ CliIdle /\ RestIdle
Next == PipeNext
Spec == Init /\ [][Next]_vars

\* The same, the run being given processor time for as long as it has a step.
SpecFair == Spec /\ WF_vars(Next)

\* no_proxy_context around a block, for every starting environment.
InitScope == env \in Environments /\ ScopeInit /\ PipeIdle /\ BotIdle /\ CollIdle
             /\ CapIdle /\ CliIdle /\ RestIdle
SpecScope == InitScope /\ [][ScopeNext]_vars

\* The worker threads of NumRuns concurrent summary requests.
InitBotProxy == env \in BotEnvs /\ BotInit /\ ScopeIdle /\ PipeIdle /\ CollIdle
                /\ CapIdle /\ CliIdle /\ RestIdle
SpecBotProxy == InitBotProxy /\ [][BotNext]_vars

\* The worker threads of start_summary_bot, side by side and one after the other.
InitStartBot == env \in PipelineEnvs /\ BotInit /\ ScopeIdle /\ PipeIdle /\ CollIdle
                /\ CapIdle /\ CliIdle /\ RestIdle
SpecStartBot == InitStartBot /\ [][SbNext]_vars
SpecStartBotSeq == InitStartBot /\ [][SbSeqNext]_vars

\* One summary request: its worker thread and its LogCollector thread.
InitCollector == env \in {[n \in ProxyVars |-> Absent]}
                 /\ CollInit /\ ScopeIdle /\ PipeIdle /\ BotIdle /\ CapIdle /\ CliIdle /\ RestIdle
SpecCollector == InitCollector /\ [][CollNext]_vars

\* The same, with both threads scheduled for as long as they have a step to take.
WorkerNext == WorkerLog \/ WorkerFinish \/ WorkerWait \/ SendFinalResult \/ WorkerError
CollectorNext == CollectorDrain \/ CollectorUpdate \/ CollectorSleep
SpecCollectorFair ==
    SpecCollector /\ WF_vars(HandleSummaryRequest) /\ WF_vars(WorkerNext)
                  /\ WF_vars(CollectorNext)

\* process_direct_text, for every text and every starting environment.
InitDirectText == env \in PipelineEnvs /\ DirectTextInit /\ ScopeIdle /\ BotIdle
                  /\ CollIdle /\ CapIdle /\ RestIdle
SpecDirectText == InitDirectText /\ [][DirectTextNext]_vars

\* transcribe, for every response of the ASR service.
InitTranscribe == env \in PipelineEnvs /\ TranscribeInit /\ ScopeIdle /\ BotIdle
                  /\ CollIdle /\ CapIdle /\ CliIdle /\ RestIdle
SpecTranscribe == InitTranscribe /\ [][TranscribeAlone]_vars

\* The bot's conversations, for every setting of the allowed users.
InitConversation == env \in {[n \in ProxyVars |-> Absent]}
                    /\ ConvInit /\ ArtIdle /\ ItIdle /\ LegIdle /\ ScopeIdle
                    /\ PipeIdle /\ BotIdle /\ CollIdle /\ CapIdle /\ CliIdle
SpecConversation == InitConversation /\ [][ConvNext]_vars

\* Runs of the bot writing their result files.
InitArtifacts == env \in {[n \in ProxyVars |-> Absent]}
                 /\ ArtInit /\ ConvIdle /\ ItIdle /\ LegIdle /\ ScopeIdle
                 /\ PipeIdle /\ BotIdle /\ CollIdle /\ CapIdle /\ CliIdle
SpecArtifacts == InitArtifacts /\ [][ArtNext]_vars

\* The integration script, for every argument and starting environment.
InitIntegration == env \in Environments
                   /\ \A n \in ProxyVars \ (SCRIPT_VARS \cup {"NO_PROXY"}) : env[n] = Absent
                   /\ ItInit /\ ConvIdle /\ ArtIdle /\ LegIdle /\ ScopeIdle
                   /\ PipeIdle /\ BotIdle /\ CollIdle /\ CapIdle /\ CliIdle
SpecIntegration == InitIntegration /\ [][ItNext]_vars

\* The legacy main, for every argument; a running main takes its next step.
InitLegacy == env \in {[n \in ProxyVars |-> Absent]}
              /\ LegInit /\ ConvIdle /\ ArtIdle /\ ItIdle /\ ScopeIdle
              /\ PipeIdle /\ BotIdle /\ CollIdle /\ CapIdle /\ CliIdle
SpecLegacy == InitLegacy /\ [][LegNext]_vars /\ WF_vars(LegNext)

\* Two summary runs in progress at the same time.
SpecTwoRuns == InitCollector /\ [][TwoRunsNext]_vars

\* A collector started on a queue that already holds records.
InitBacklog == env \in {[n \in ProxyVars |-> Absent]}
               /\ BacklogInit /\ ScopeIdle /\ PipeIdle /\ BotIdle /\ CapIdle /\ CliIdle /\ RestIdle
SpecBacklog == InitBacklog /\ [][BacklogNext]_vars

\* summarize_text on its own.
InitSummarize == env \in PipelineEnvs /\ SumInit /\ ScopeIdle /\ BotIdle /\ CollIdle
                 /\ CapIdle /\ CliIdle /\ RestIdle
SpecSummarize == InitSummarize /\ [][SumNext]_vars

\* main(), for every combination of arguments.
InitCli == env \in {e \in PipelineEnvs : e["NO_PROXY"] = Absent /\ e["FTP_PROXY"] = Absent}
           /\ CliInit /\ PipeIdle /\ ScopeIdle /\ BotIdle /\ CollIdle /\ CapIdle
           /\ RestIdle
SpecCli == InitCli /\ [][CliNext]_vars

\* SubtitleExtractor.extract, for every video info of CaptionInfos.
InitCaptions == env \in {[n \in ProxyVars |-> Absent]}
                /\ CapInit /\ ScopeIdle /\ PipeIdle /\ BotIdle /\ CollIdle /\ CliIdle /\ RestIdle
SpecCaptions == InitCaptions /\ [][CapNext]_vars

----------------------------------------------------------------------------
(* Claims *)

\* C1: with two summary runs on separate worker threads, the process-wide
\* proxy environment stays in the no-proxy configuration for as long as a run
\* is between its own disable and restore: no step of the other run takes the
\* environment out of that configuration meanwhile.
C1_IsolationAcrossRuns ==
    [][\A r \in Runs :
          (wsaved[r] /= <<>> /\ wsaved'[r] = wsaved[r] /\ wpc'[r] = wpc[r]
              /\ NoProxyConfig(env))
          => NoProxyConfig(env')]_vars

\* C2: during one bot summary run at most one proxy scope is open at any
\* time: no scope is entered while one entered earlier by the run is open.
C2_OneScopePerRun == \A r \in Runs : Len(wsaved[r]) <= 1

\* C3: when the block wrapped by no_proxy_context has finished, normally or
\* by raising, every proxy variable has the value it had on entry (absent
\* ones are absent again), and an exception of the block has propagated.
C3_ExitRestoresTouched ==
    scope_pc = "exited" =>
        /\ \A n \in ProxyVars : env[n] = entry_env[n]
        /\ scope_outcome \in {"returned", "raised"}

\* C4: an outcome of process_youtube_video with success=True always carries a
\* non-empty text, whatever the flags and whatever the collaborators return.
C4_SuccessHasText ==
    result.success => ("text" \in DOMAIN result /\ Truthy(result.text))

\* A run that succeeded on the transcription path with the summary skipped.
C4_Witness ==
    /\ pc = "done" /\ result.success /\ skip_summary
    /\ "transcription_file" \in DOMAIN result
    /\ result.text = <<"spoken words">>

\* C5: with force_audio=False, a run whose caption extraction yields text never
\* invokes download, upload or transcription, and a run whose caption
\* extraction yields None invokes the audio download next; with force_audio=True
\* caption extraction is never invoked.
C5_CaptionsElseAudio ==
    /\ "subtitle_extracted" \in DOMAIN result =>
          \A i \in 1..Len(calls) : calls[i] \notin {"download", "upload", "transcribe"}
    /\ (~force_audio /\ calls /= <<>>) => calls[1] = "extract"
    /\ (~force_audio /\ calls /= <<>> /\ "subtitle_extracted" \notin DOMAIN result) =>
          IF Len(calls) = 1 THEN pc = "download" /\ ENABLED Download
          ELSE calls[2] = "download"
    /\ force_audio => Count(calls, "extract") = 0

\* A run whose caption extraction yielded None and that went on to the download.
C5_Witness ==
    /\ ~force_audio
    /\ Len(calls) >= 2 /\ calls[1] = "extract" /\ calls[2] = "download"
    /\ "audio_file" \in DOMAIN result

\* The summarizer failed: it returned nothing, or a value carrying the marker.
SummarizerFailed(s) == s = None \/ s = <<>> \/ s[1] = MARKER

\* C6: on either path, a failure of the summarizer leaves the outcome
\* successful: success=True, the acquired text kept, no 'summary', and
\* 'summary_error' holding the failure message.
C6_SummaryFailureKeepsSuccess ==
    (pc = "done" /\ Count(calls, "summarize") > 0 /\ SummarizerFailed(summary)) =>
        /\ result.success
        /\ "text" \in DOMAIN result /\ result.text = acquired
        /\ "summary" \notin DOMAIN result
        /\ "summary_error" \in DOMAIN result
        /\ Truthy(result.summary_error)
        /\ Truthy(summary) => result.summary_error = summary

\* A transcribed run whose summarizer returned an empty completion.
C6_Witness ==
    /\ pc = "done" /\ summary = <<>>
    /\ Count(calls, "transcribe") = 1 /\ Count(calls, "summarize") = 1
    /\ "summary_error" \in DOMAIN result

\* The first piece of the error main.py gives a failed stage.
StageMessage(stage) ==
    IF stage = "download" THEN "audio download failed"
    ELSE IF stage = "upload" THEN "upload to OSS failed"
    ELSE "audio transcription failed: "

C8_FinalIsLast == final_written => last_edit.by = "worker"

\* C9: after the worker of a summary run has finished, the LogCollector of
\* that run eventually stops.
C9_CollectorStops == (tpc = "done") ~> (cpc = "stopped")

\* C10: the text of every edit call a LogCollector issues differs from the
\* text of its last edit call that succeeded.
C10_NoRepeatedForward ==
    [][(last_edit' /= last_edit /\ last_edit'.by = "collector")
          => last_edit'.text /= last_ok_text]_vars

\* A forward is due while the rendered text is the one forwarded last.
C10_Witness ==
    /\ cpc = "update"
    /\ should_update(since_update, new_logs_added, logs)
    /\ last_ok_text /= <<>>
    /\ render(logs) = last_ok_text

\* C11: any two successive edit calls of one collector on the status message
\* are at least MIN_INTERVAL seconds apart, also when the earlier call failed.
C11_EditsSpaced ==
    [][(last_edit' /= last_edit /\ last_edit'.by = "collector")
          => since_edit >= MIN_INTERVAL]_vars

\* C12: the collector's log list followed by what is still queued is the
\* records in the order they were put, and every text the collector forwards
\* lists a run of consecutive records in that same order.
C12_FifoOrder ==
    /\ logs \o log_queue = put_order
    /\ last_edit.by = "collector" =>
          \E i \in 1..Len(put_order) : \E j \in i..Len(put_order) :
              last_edit.text = <<"progress">> \o SubSeq(put_order, i, j)

\* C12, its case: a forwarded text that lists two different records.
C12_Witness ==
    /\ last_edit.by = "collector"
    /\ Len(last_edit.text) >= 3
    /\ last_edit.text[2] /= last_edit.text[3]

\* C13: when the upload succeeded, a deletion of the uploaded object has been
\* attempted by the time the run is over, whether the transcription
\* succeeded or failed.
C13_RemoteObjectDeleted ==
    (pc = "done" /\ "oss_url" \in DOMAIN result) => Count(calls, "delete") >= 1

\* C14: a run whose download of the requested video failed never ends with
\* success=True on text that comes from the hard-coded public video.
C14_FallbackNeverMasks ==
    (result.success /\ "audio_file" \in DOMAIN result)
        => result.audio_file /= try_fallback_download("file")

\* C15: when the ASR job ends FAILED with code X and message Y, the run ends
\* with success=False and an error text that contains both X and Y, whatever
\* the job's 'results' list looks like.
C15_JobFailureNamesCodeAndMessage ==
    asr_status = "FAILED" =>
        /\ ~result.success
        /\ "error" \in DOMAIN result
        /\ Count(result.error, "X") >= 1
        /\ Count(result.error, "Y") >= 1

\* The language has at least one track in the caption dict.
HasTrack(d, lang) == has_key(d, lang) /\ tracks_of(d, lang) /= <<>>
PreferredLangs == {SUPPORTED_LANGUAGES[i] : i \in 1..Len(SUPPORTED_LANGUAGES)}
\* The video info lists no manual and no automatic track.
NoTracks(info) ==
    \A lang \in CaptionLangs :
        ~HasTrack(info.subtitles, lang) /\ ~HasTrack(info.automatic_captions, lang)

C17_PreferredLanguageWins ==
    (/\ TruthyDict(cap_sel)
     /\ \E lang \in PreferredLangs :
            HasTrack(cap_info.subtitles, lang) \/ HasTrack(cap_info.automatic_captions, lang))
        => cap_sel.language \in PreferredLangs

\* The track set in use: the manual tracks when any exist, else the automatic ones.
UsedTracks(info) ==
    IF \E lang \in CaptionLangs : HasTrack(info.subtitles, lang)
    THEN info.subtitles ELSE info.automatic_captions
\* The language to choose from the set d: the earliest of the preference list
\* with a track, else the first of d with a track.
EarliestPreferred(d) ==
    SUPPORTED_LANGUAGES[CHOOSE i \in 1..Len(SUPPORTED_LANGUAGES) :
        /\ HasTrack(d, SUPPORTED_LANGUAGES[i])
        /\ \A k \in 1..(i - 1) : ~HasTrack(d, SUPPORTED_LANGUAGES[k])]
FirstAvailable(d) ==
    d[CHOOSE i \in 1..Len(d) :
        /\ d[i].tracks /= <<>>
        /\ \A k \in 1..(i - 1) : d[k].tracks = <<>>].lang
ExpectedLanguage(d) ==
    IF \E lang \in PreferredLangs : HasTrack(d, lang) THEN EarliestPreferred(d)
    ELSE FirstAvailable(d)

\* C18: within the track set in use, the chosen language is the earliest of
\* the preference list that has a track, else the first available language
\* that has one; and a track is chosen whenever some language of the set has
\* a track with a URL.
C18_LanguageChoice ==
    (cap_pc \in {"download", "done"} /\ cap_info.kind = "info") =>
        LET d == UsedTracks(cap_info)
        IN  /\ TruthyDict(cap_sel) => cap_sel.language = ExpectedLanguage(d)
            /\ (\E i \in 1..Len(d) : \E k \in 1..Len(d[i].tracks) :
                    d[i].tracks[k].url /= None) => TruthyDict(cap_sel)

\* C19: every completion request of the summarization step is made while the
\* six routing variables are unset and NO_PROXY/no_proxy are '*'.
C19_CompletionWithoutProxy ==
    [][\A r \in Runs : (wpc[r] = "api" /\ wpc'[r] = "leave") => NoProxyConfig(env)]_vars

\* C20: summarize returns a value in every case: for empty input the value
\* begins with the failure marker, no completion request is made and the
\* environment is left as it is; a transport failure and any other failure of
\* the request are returned as values that begin with the failure marker.
C20_SummarizeReturnsFailures ==
    [][/\ (pc = "summarize" /\ ~Truthy(acquired)) =>
            /\ pc' = "record"
            /\ startswith(summary', MARKER)
            /\ env' = env
            /\ Count(calls', "completion") = 0
       /\ (pc = "api" /\ pc' /= pc) =>
            /\ pc' = "leave"
            /\ api_outcome' \in {"socks_error", "api_error"} => startswith(summary', MARKER)
       /\ (pc = "leave" /\ pc' /= pc) => (pc' = "record" /\ summary' = summary)]_vars

\* C20, its case: empty input was turned down where proxies are configured.
C20_Witness ==
    /\ pc = "record"
    /\ ~Truthy(acquired)
    /\ startswith(summary, MARKER)
    /\ env["HTTP_PROXY"] /= Absent

\* C23: an exception raised in a worker run after its proxies were disabled
\* never leaves the thread: the run goes on to restore the proxy variables it
\* saved at its start, then to the handler, which sends the error text to the
\* run's status message, and then ends.
C23_WorkerCatchesExceptions ==
    [][\A r \in Runs :
        /\ wres'[r] = "raised" => wpc'[r] \in {"restore", "except", "done"}
        /\ (wres[r] = "raised" /\ wpc[r] = "restore" /\ wpc'[r] /= wpc[r]) =>
              /\ wpc'[r] = "except"
              /\ wsaved[r] /= <<>>
              /\ \A n \in DOMAIN Top(wsaved[r]) : env'[n] = Top(wsaved[r])[n]
              /\ wsaved'[r] = Pop(wsaved[r])
        /\ (wres[r] = "raised" /\ wpc[r] = "except" /\ wpc'[r] /= wpc[r]) =>
              /\ wpc'[r] = "done"
              /\ wstatus'[r] \in {"processing error", wstatus[r]}
              /\ env' = env]_vars

\* C23, its case: a run that raised has ended with the error text on its
\* status message and the proxy it started with set again.
C23_Witness ==
    \E r \in Runs :
        /\ wres[r] = "raised"
        /\ wpc[r] = "done"
        /\ wstatus[r] = "processing error"
        /\ wsaved[r] = <<>>
        /\ start_env["HTTP_PROXY"] /= Absent
        /\ env["HTTP_PROXY"] = start_env["HTTP_PROXY"]

\* C24: once the user has cancelled, no run starts a further stage (neither
\* the acquisition of the text nor the summarization), and a run that ends
\* has given back every proxy snapshot it took.
C24_CancelStopsAtStageBoundary ==
    [][cancelled =>
        \A r \in Runs :
            /\ wpc[r] = "video" => wpc'[r] \in {"video", "restore"}
            /\ wpc[r] = "summarize" => wpc'[r] \in {"summarize", "restore"}
            /\ wpc'[r] = "done" => wsaved'[r] = <<>>]_vars

\* C30: while a summary run is between the setup of its logging and its end,
\* a log record is put on the queue exactly once.
C30_RecordPutOnce ==
    (\E r \in Runs : wpc[r] \notin {"idle", "start", "done"}) =>
        puts_per_record(handlers) = 1

\* C28: when a run has called disable_proxies and then restore_proxies with
\* the value it returned, and nothing else has touched the environment, every
\* proxy variable is as it was before the two calls.
C28_DisableRestoreRoundTrip ==
    \A r \in Runs :
        (wpc[r] = "except" /\ \A q \in Runs \ {r} : wpc[q] = "idle") =>
            env = start_env

\* C27: whenever no run of start_summary_bot is in progress, the runs so far
\* having taken place one after the other, every proxy variable is as it was
\* before the first run.
C27_SequentialRunsRestoreEnv ==
    (\A r \in Runs : wpc[r] \in {"idle", "done"}) => env = start_env

\* C29: when the runs of start_summary_bot, started side by side, have all
\* finished, every proxy variable is as it was before any of them started.
C29_ConcurrentRunsRestoreEnv ==
    (\A r \in Runs : wpc[r] = "done") => env = start_env

\* C21: a successful outcome of process_youtube_video carries exactly one of
\* 'summary' and 'summary_error' when skip_summary is false; when it is true
\* the outcome carries neither and the summarizer was never invoked.
C21_SummaryOrErrorUnlessSkipped ==
    (pc = "done" /\ result.success) =>
        IF skip_summary
        THEN /\ "summary" \notin DOMAIN result
             /\ "summary_error" \notin DOMAIN result
             /\ Count(calls, "summarize") = 0
             /\ Count(calls, "completion") = 0
        ELSE ("summary" \in DOMAIN result) /= ("summary_error" \in DOMAIN result)

\* C21, its case: a run with the summary skipped has succeeded on the caption
\* path without a call of the summarizer.
C21_Witness ==
    /\ pc = "done" /\ result.success /\ skip_summary
    /\ "subtitle_extracted" \in DOMAIN result
    /\ Count(calls, "summarize") = 0

\* What extract returns for a video that has no captions at all.
NoCaptionsResult ==
    extract([url_ok |-> TRUE, info |-> "nocaps", selected |-> NoDict,
             payload |-> [ok |-> FALSE, json |-> FALSE, items |-> <<>>],
             saved |-> FALSE])

\* C22: the result of an extraction whose caption request or parsing failed
\* differs from the result for a video without captions.
C22_NoCaptionsDistinctFromFailure ==
    (cap_pc = "done" /\ cap_fetches > 0 /\ ~TruthyDict(cap_out)) =>
        cap_out /= NoCaptionsResult

\* C25: every run of process_youtube_video comes to an end with an outcome,
\* whatever the collaborators do or fail to do.
C25_RunTerminates == <>(pc = "done")

\* The order in which main looks at its arguments.
ModeOrder == <<"text", "text_file", "oss_url", "url">>

\* The argument of a mode was given; the video mode needs none.
ModeGiven(args, m) == m = "url" \/ Truthy(args[m])

\* The first mode, in that order, whose argument was given.
ExpectedMode(args) ==
    ModeOrder[CHOOSE i \in 1..4 :
                /\ ModeGiven(args, ModeOrder[i])
                /\ \A j \in 1..(i - 1) : ~ModeGiven(args, ModeOrder[j])]

\* C26: main takes the first of the text, text file, OSS URL and video modes
\* whose argument was given and runs that mode only; it returns 0 exactly
\* when the mode's outcome has success=True and 1 otherwise; a text file that
\* cannot be read gives 1 and the summarizer is not called.
C26_ExitCodeAndPrecedence ==
    /\ cli_pc \notin {"unused", "start"} =>
          /\ cli_mode = ExpectedMode(cli_args)
          /\ cli_mode = "text" /\ calls /= <<>> =>
                calls[1] = "summarize" /\ acquired = cli_args.text
          /\ cli_mode = "text_file" /\ calls /= <<>> =>
                calls[1] = "summarize" /\ acquired = cli_args.file
          /\ cli_mode = "oss_url" /\ calls /= <<>> => calls[1] = "transcribe"
          /\ cli_mode = "url" /\ calls /= <<>> =>
                calls[1] = IF cli_args.force_audio THEN "download" ELSE "extract"
    /\ cli_pc = "exited" =>
          /\ cli_exit \in {0, 1}
          /\ cli_exit = 0 <=> result.success
          /\ (cli_mode = "text_file" /\ cli_args.file = None) =>
                cli_exit = 1 /\ Count(calls, "summarize") = 0
    /\ cli_pc /= "exited" => cli_exit = "none"

\* C26, its case: main has returned 0 after the OSS URL mode, which it took
\* although a video URL was given as well.
C26_Witness ==
    /\ cli_pc = "exited"
    /\ cli_mode = "oss_url" /\ Truthy(cli_args.url)
    /\ cli_exit = 0
    /\ "summary" \in DOMAIN result

\* C32: a record the collector drained less than MIN_INTERVAL seconds after
\* its last forward is forwarded by the first pass of the loop that begins
\* MIN_INTERVAL seconds or more after that forward, whether or not that pass
\* drains a further record: here the pass exactly MIN_INTERVAL seconds after
\* a forward that succeeded, with more records drained than that forward
\* rendered.
C32_HeldRecordForwarded ==
    [][(/\ cpc = "update" /\ cpc' /= cpc
        /\ running
        /\ since_update = MIN_INTERVAL
        /\ since_edit = MIN_INTERVAL
        /\ last_ok_text /= <<>>
        /\ last_message_text = last_ok_text
        /\ Len(logs) > Len(last_ok_text) - 1)
          => (last_edit' /= last_edit /\ last_edit'.by = "collector")]_vars

\* C33: the text of every forward of a collector lists the last min(10, n)
\* of the n records it has drained so far, in their order, and nothing older.
C33_ForwardRendersLastTen ==
    [][(last_edit' /= last_edit /\ last_edit'.by = "collector") =>
          LET n == Len(logs)
              m == IF n < 10 THEN n ELSE 10
          IN  last_edit'.text = <<"progress">> \o [i \in 1..m |-> logs[n - m + i]]]_vars

\* C33, its case: a forward made with more than ten records drained, which
\* begins at the tenth record from the end.
C33_Witness ==
    /\ last_edit.by = "collector"
    /\ Len(logs) > 10
    /\ Len(last_edit.text) = 11
    /\ last_edit.text[2] = logs[Len(logs) - 9]
    /\ last_edit.text[2] /= logs[1]

\* C31: with two summary runs at work, the collector of each run holds only
\* records of its own run, and the status message of a run shows no record
\* of the other.
C31_CollectorsSeparate ==
    /\ \A i \in 1..Len(logs) : logs[i] /= OtherLine
    /\ \A i \in 1..Len(other_logs) : other_logs[i] = OtherLine
    /\ \A i \in 1..Len(status_msg) : status_msg[i] /= OtherLine

\* What makes process_direct_text fail: no text, nothing from the summarizer,
\* or a value of the summarizer that starts with the failure marker.
DirectTextFailure ==
    \/ ~Truthy(acquired)
    \/ ~Truthy(summary)
    \/ startswith(summary, MARKER)

\* C39: process_direct_text returns success=False with an error and no
\* summary when the text is empty or the summarizer gave nothing or a value
\* marked as a failure, and success=True with the text and the summary
\* otherwise, whether or not the result file could be saved.
C39_DirectTextResult ==
    (cli_pc = "processing" /\ pc = "done") =>
        IF DirectTextFailure
        THEN /\ result.success = FALSE
             /\ "error" \in DOMAIN result
             /\ "summary" \notin DOMAIN result
        ELSE /\ result.success = TRUE
             /\ "error" \notin DOMAIN result
             /\ "text" \in DOMAIN result /\ result.text = acquired
             /\ "summary" \in DOMAIN result /\ result.summary = summary

\* process_direct_text has succeeded although the result file was not saved.
C39_Witness ==
    /\ cli_pc = "processing" /\ pc = "done"
    /\ result.success = TRUE
    /\ "summary" \in DOMAIN result
    /\ "summary_file" \notin DOMAIN result

\* C36: transcribe never raises, and what it returns holds exactly one of
\* 'error' and a non-empty 'full_text', for every response of the ASR service
\* and whether or not the transcription file could be saved.
C36_TranscribeReturnsOneOf ==
    /\ pc /= "raised"
    /\ pc = "returned" =>
          LET has_error == "error" \in DOMAIN result
              has_text  == "full_text" \in DOMAIN result
          IN  /\ has_error /= has_text
              /\ has_text => Truthy(result.full_text)

\* transcribe has returned a text although the transcription file was not
\* saved.
C36_Witness ==
    /\ pc = "returned"
    /\ "full_text" \in DOMAIN result
    /\ Truthy(result.full_text)
    /\ "saved_file" \notin DOMAIN result
    /\ "error" \notin DOMAIN result

\* C34: when TELEGRAM_ALLOWED_USERS is not empty, no summary run, audio
\* download or chat completion is ever started for a user who is not in it.
C34_OnlyAllowedUsersStartWork ==
    allowed_users /= {} =>
        \A u \in ConvUsers \ allowed_users : started[u] = {}

\* C35: two runs never write a result file (subtitle, transcription, summary)
\* to the same path.
C35_DistinctArtifactPaths ==
    \A f, g \in art_files : f.path = g.path => f.run = g.run

\* C37: the proxy of --youtube-proxy is in effect only during the download
\* step: once the step is over, each of the proxy variables has the value
\* it had before.
C37_YoutubeProxyOnlyForDownload ==
    (it_pc \in {"upload", "exited"} /\ Truthy(it_args.youtube_proxy) /\ ~it_args.no_proxy)
        => \A n \in SCRIPT_VARS : env[n] = it_entry_env[n]

\* transcribe_audio was called, and delete_file_from_oss was called after it.
LegTranscribed == \E i \in 1..Len(leg_calls) : leg_calls[i] = "transcribe_audio"
LegDeleteAttempted ==
    \E i, j \in 1..Len(leg_calls) : /\ i < j
                                    /\ leg_calls[i] = "transcribe_audio"
                                    /\ leg_calls[j] = "delete_file_from_oss"

\* C38: in the legacy main, once the upload succeeded and transcribe_audio has
\* returned, with a text or with an error, delete_file_from_oss is attempted,
\* and the exit code is 1 for an error result and 0 otherwise, whatever the
\* deletion came to.
C38_DeleteAfterTranscribe ==
    /\ [](leg_pc = "exited" /\ LegTranscribed =>
            /\ LegDeleteAttempted
            /\ leg_exit = {IF "error" \in DOMAIN leg_result THEN 1 ELSE 0})
    /\ (LegTranscribed ~> LegDeleteAttempted)

\* The deletion failed after a good transcription, and main returned 0.
C38_Witness ==
    /\ leg_pc = "exited"
    /\ LegDeleteAttempted
    /\ ~leg_deleted
    /\ "full_text" \in DOMAIN leg_result
    /\ leg_exit = {0}

====
